---- MODULE Spec2Model ----
(***************************************************************************)
(* LWM2M bootstrapper (cmd/lwm2m-bootstrapper): the TLV decoder, the blob  *)
(* store, the device record, and the Bootstrap and Register sessions with  *)
(* their inbound CoAP handlers.                                            *)
(*                                                                         *)
(* Strings the program inspects character by character (store keys,        *)
(* request paths, URLs) are sequences of one-character strings; byte        *)
(* slices are sequences of 0..255.  Error values are the messages the       *)
(* program builds with fmt.Errorf.                                          *)
(***************************************************************************)
EXTENDS Integers, Sequences, FiniteSets, TLC

(***************************************************************************)
(* Bounds of the model.                                                    *)
(***************************************************************************)
\* inbound requests the server sends during one Bootstrap call, drawn from
\* SessionRequests (Spec) or from Requests (SpecWide); the transport gives
\* each its own worker, so as many handlers may run at the same time
MaxRequests == 3
MaxWide == 2

(***************************************************************************)
(* Text helpers.                                                           *)
(***************************************************************************)
Digits == <<"0", "1", "2", "3", "4", "5", "6", "7", "8", "9">>

DigitVal(c) == CHOOSE i \in 0..9 : Digits[i + 1] = c

IsDigit(c) == \E i \in 1..10 : Digits[i] = c

RECURSIVE Itoa(_)
\* fmt.Sprintf("%v", n) of a non-negative int: decimal, no leading zeros
Itoa(n) == IF n < 10 THEN <<Digits[n + 1]>>
           ELSE Itoa(n \div 10) \o <<Digits[(n % 10) + 1]>>

RECURSIVE DigitsVal(_)
DigitsVal(s) == IF s = <<>> THEN 0
                ELSE DigitsVal(SubSeq(s, 1, Len(s) - 1)) * 10 + DigitVal(s[Len(s)])

\* strconv.Atoi: an optional sign followed by one or more decimal digits
Atoi(s) ==
    LET signed == Len(s) >= 1 /\ s[1] \in {"+", "-"}
        body == IF signed THEN Tail(s) ELSE s
    IN  IF Len(body) = 0 \/ \E i \in 1..Len(body) : ~IsDigit(body[i])
        THEN [err |-> "invalid syntax", val |-> 0]
        ELSE [err |-> "",
              val |-> IF signed /\ s[1] = "-" THEN 0 - DigitsVal(body)
                      ELSE DigitsVal(body)]

RECURSIVE Flatten(_)
Flatten(ss) == IF ss = <<>> THEN <<>> ELSE Head(ss) \o Flatten(Tail(ss))

(***************************************************************************)
(* TLV decoder (tlv.go).                                                   *)
(***************************************************************************)
ObjectInstance == 0
ResourceInstance == 1
MultiResource == 2
Resource == 3

ErrShort == "Data short to be a valid TLV"

\* fmt.Errorf("Data short to be a valid TLV. Needed %v, got %v", ...)
ErrShortNeeded(needed, got) ==
    ErrShort \o ". Needed " \o ToString(needed) \o ", got " \o ToString(got)

\* the nil *TLV
NilTLV == [nil |-> TRUE]

\* an error return that still hands out a node
TLVFailWithNode(msg) == [err |-> msg, tlv |-> [Type |-> 0, Identifier |-> 0,
                                                Value |-> <<>>, Children |-> <<>>],
                         rest |-> <<>>]

\* return nil, nil, fmt.Errorf(...)
TLVFail(msg) == [err |-> msg, tlv |-> NilTLV, rest |-> <<>>]

RECURSIVE BigEndianReversed(_)
\* the length bytes read least significant first
BigEndianReversed(bs) == IF bs = <<>> THEN 0
                         ELSE bs[1] + 256 * BigEndianReversed(Tail(bs))

RECURSIVE BigEndian(_)
\* length = (length << 8) | int(data[i]) over the length bytes
BigEndian(bs) == IF bs = <<>> THEN 0
                 ELSE BigEndian(SubSeq(bs, 1, Len(bs) - 1)) * 256 + bs[Len(bs)]

RECURSIVE TLVFromBytes(_)
RECURSIVE ParseChildren(_, _)
RECURSIVE ParseChildrenReversed(_, _)

\* a loop that puts each child in front of the ones before it
ParseChildrenReversed(childData, acc) ==
    IF Len(childData) = 0 THEN [err |-> "", children |-> acc]
    ELSE LET r == TLVFromBytes(childData)
         IN  IF r.err # "" THEN [err |-> r.err, children |-> <<>>]
             ELSE ParseChildrenReversed(r.rest, <<r.tlv>> \o acc)

\* the loop "for len(childData) > 0" of TLVFromBytes
ParseChildren(childData, acc) ==
    IF Len(childData) = 0 THEN [err |-> "", children |-> acc]
    ELSE LET r == TLVFromBytes(childData)
         IN  IF r.err # "" THEN [err |-> r.err, children |-> <<>>]
             ELSE ParseChildren(r.rest, Append(acc, r.tlv))

TLVFromBytes(data) ==
    IF Len(data) < 1 THEN TLVFail(ErrShort)
    ELSE
    LET typeField == data[1]
        type == (typeField \div 64) % 4
        d1 == Tail(data)
        wide == (typeField \div 32) % 2 = 1
    IN
    IF (~wide /\ Len(d1) < 1) \/ (wide /\ Len(d1) < 2) THEN TLVFail(ErrShort)
    ELSE
    LET ident == IF wide THEN d1[1] * 256 + d1[2] ELSE d1[1]
        d2 == SubSeq(d1, IF wide THEN 3 ELSE 2, Len(d1))
        lengthBytes == (typeField \div 8) % 4
    IN
    IF lengthBytes # 0 /\ Len(d2) < lengthBytes
    THEN TLVFail(ErrShortNeeded(lengthBytes, Len(d2)))
    ELSE
    LET length == IF lengthBytes = 0 THEN typeField % 8
                  ELSE BigEndian(SubSeq(d2, 1, lengthBytes))
        d3 == SubSeq(d2, lengthBytes + 1, Len(d2))
    IN
    IF Len(d3) < length THEN TLVFail(ErrShortNeeded(length, Len(d3)))
    ELSE
    LET value == SubSeq(d3, 1, length)
        rest == SubSeq(d3, length + 1, Len(d3))
        kids == IF type = ObjectInstance \/ type = MultiResource
                THEN ParseChildren(value, <<>>)
                ELSE [err |-> "", children |-> <<>>]
    IN
    IF kids.err # "" THEN TLVFail(kids.err)
    ELSE [err |-> "",
          tlv |-> [Type |-> type, Identifier |-> ident, Value |-> value,
                   Children |-> kids.children],
          rest |-> rest]

(***************************************************************************)
(* Blob store (store.go).  A store value is [kind, m]: m maps the memory   *)
(* backend's keys, or the filesystem backend's file names, to bytes.       *)
(***************************************************************************)
ErrNotFound == "Not found"
ErrNoFile == "no such file or directory"

\* an escape that drops the separators
escapeKeyDropSlash(key) == SelectSeq(key, LAMBDA c : c # "/")

escapeKey(key) == [i \in 1..Len(key) |-> IF key[i] = "/" THEN "_" ELSE key[i]]
\* a Put that keeps the value a key already has
MapPutKeepFirst(m, k, data) ==
    [x \in DOMAIN m \cup {k} |-> IF x \in DOMAIN m THEN m[x] ELSE data]

MapPut(m, k, data) == [x \in DOMAIN m \cup {k} |-> IF x = k THEN data ELSE m[x]]

MemStoreGet(s, key) ==
    IF key \in DOMAIN s.m THEN [err |-> "", data |-> s.m[key]]
    ELSE [err |-> ErrNotFound, data |-> <<>>]

MemStorePut(s, key, data) == [s EXCEPT !.m = MapPut(s.m, key, data)]

FsStoreGet(s, key) ==
    LET location == escapeKey(key)
    IN  IF location \in DOMAIN s.m THEN [err |-> "", data |-> s.m[location]]
        ELSE [err |-> ErrNoFile, data |-> <<>>]

\* a Put that takes the key for the file name
FsStorePutUnescaped(s, key, data) == [s EXCEPT !.m = MapPut(s.m, key, data)]

FsStorePut(s, key, data) == [s EXCEPT !.m = MapPut(s.m, escapeKey(key), data)]

\* MemStore over byte slices: h is the heap (address -> bytes), m the map
\* (key -> address).  make allocates the next address, copy fills it.
\* a Put that keeps the caller's slice
MemStorePutSliceShared(h, m, key, a) == [heap |-> h, m |-> MapPut(m, key, a)]

MemStorePutSlice(h, m, key, a) ==
    [heap |-> Append(h, h[a]), m |-> MapPut(m, key, Len(h) + 1)]

MemStoreGetSlice(h, m, key) ==
    IF key \in DOMAIN m
    THEN [err |-> "", heap |-> Append(h, h[m[key]]), out |-> Len(h) + 1]
    ELSE [err |-> ErrNotFound, heap |-> h, out |-> 0]

\* dispatch through the Store interface
StoreGet(s, key) == IF s.kind = "memory" THEN MemStoreGet(s, key)
                    ELSE FsStoreGet(s, key)

StorePut(s, key, data) == IF s.kind = "memory" THEN MemStorePut(s, key, data)
                          ELSE FsStorePut(s, key, data)

EmptyMap == [x \in {} |-> <<>>]

(***************************************************************************)
(* Bytes and text.  string(data) and []byte(s) over the ASCII subset the   *)
(* model uses; every other byte reads as "~".                              *)
(***************************************************************************)
Letters == <<"a", "b", "c", "d", "e", "f", "g", "h", "i", "j", "k", "l", "m",
             "n", "o", "p", "q", "r", "s", "t", "u", "v", "w", "x", "y", "z">>

Chr(b) == IF b >= 48 /\ b <= 57 THEN Digits[b - 47]
          ELSE IF b >= 97 /\ b <= 122 THEN Letters[b - 96]
          ELSE CASE b = 38 -> "&" [] b = 45 -> "-" [] b = 46 -> "."
                 [] b = 47 -> "/" [] b = 58 -> ":" [] b = 61 -> "="
                 [] b = 63 -> "?" [] OTHER -> "~"

Ord(c) == CHOOSE b \in 38..122 : Chr(b) = c

StringOf(data) == [i \in 1..Len(data) |-> Chr(data[i])]

BytesOf(s) == [i \in 1..Len(s) |-> Ord(s[i])]

IndexOf(s, c) == IF \E i \in 1..Len(s) : s[i] = c
                 THEN CHOOSE i \in 1..Len(s) :
                          s[i] = c /\ \A j \in 1..(i - 1) : s[j] # c
                 ELSE 0

RECURSIVE SplitOn(_, _)
\* strings.Split(s, c) for a one-character separator
SplitOn(s, c) ==
    LET i == IndexOf(s, c)
    IN  IF i = 0 THEN <<s>>
        ELSE <<SubSeq(s, 1, i - 1)>> \o SplitOn(SubSeq(s, i + 1, Len(s)), c)

(***************************************************************************)
(* net/url as device.go uses it: url.Parse, URL.Scheme, URL.Host and       *)
(* URL.Query().  A parsed URL is [Scheme, Host, Query]; Query is the       *)
(* sequence of <<key, value>> pairs of the raw query, in order.            *)
(***************************************************************************)
\* a nil error; a nil pointer, slice or option is None, a set one Some(v)
Nil == "nil"
None == <<>>
Some(v) == <<v>>
NoURL == [Scheme |-> <<>>, Host |-> <<>>, Query |-> <<>>]

\* LET x == v IN F(x), with v evaluated once
With(v, F(_)) == CHOOSE r \in {F(x) : x \in {v}} : TRUE

IsLetter(c) == \E i \in 1..26 : Letters[i] = c

\* the pairs of a raw query: "&"-separated, each split at its first "="
ParseQuery(raw) ==
    LET parts == SelectSeq(SplitOn(raw, "&"), LAMBDA p : p # <<>>)
        Pair(p) == LET i == IndexOf(p, "=")
                   IN  IF i = 0 THEN <<p, <<>>>>
                       ELSE <<SubSeq(p, 1, i - 1), SubSeq(p, i + 1, Len(p))>>
    IN  [k \in 1..Len(parts) |-> Pair(parts[k])]

\* the parts of a URL after its scheme: //host/path?query
UrlRest(scheme, rest) ==
    LET q == IndexOf(rest, "?")
        main == IF q = 0 THEN rest ELSE SubSeq(rest, 1, q - 1)
        raw == IF q = 0 THEN <<>> ELSE SubSeq(rest, q + 1, Len(rest))
        hasAuth == Len(main) >= 2 /\ main[1] = "/" /\ main[2] = "/"
    IN  With(IF hasAuth THEN SubSeq(main, 3, Len(main)) ELSE <<>>,
             LAMBDA auth :
                 With(IndexOf(auth, "/"),
                      LAMBDA slash :
                          [Scheme |-> scheme,
                           Host |-> IF slash = 0 THEN auth
                                    ELSE SubSeq(auth, 1, slash - 1),
                           Query |-> ParseQuery(raw)]))

UrlParse(s) ==
    With(IndexOf(s, ":"),
         LAMBDA colon :
             IF colon = 1 THEN [err |-> "missing protocol scheme", url |-> NoURL]
             ELSE IF colon > 1 /\ \A i \in 1..(colon - 1) : IsLetter(s[i])
             THEN [err |-> "", url |-> UrlRest(SubSeq(s, 1, colon - 1),
                                               SubSeq(s, colon + 1, Len(s)))]
             ELSE [err |-> "", url |-> UrlRest(<<>>, s)])

\* URL.Query()[key]: the values of key, in order
QueryValues(u, key) ==
    LET hits == SelectSeq(u.Query, LAMBDA kv : kv[1] = key)
    IN  [i \in 1..Len(hits) |-> hits[i][2]]

parseCoapURL(coapURL) ==
    With(UrlParse(coapURL), LAMBDA p :
        IF p.err # "" THEN [err |-> "URL invalid: " \o p.err, url |-> NoURL]
        ELSE LET accounts == QueryValues(p.url, <<"a", "i", "d">>)
             IN  IF Len(accounts) = 0
                 THEN [err |-> "URL is missing account query parameter - 'aid'",
                       url |-> NoURL]
                 ELSE IF Len(accounts) # 1
                 THEN [err |-> "URL must have exactly one account query parameter - 'aid'",
                       url |-> NoURL]
                 ELSE IF p.url.Scheme # <<"c", "o", "a", "p", "s">>
                 THEN [err |-> "URL scheme not supported, must be \"coap\"", url |-> NoURL]
                 ELSE [err |-> "", url |-> p.url])

(***************************************************************************)
(* crypto/x509 as device.go uses it.  A DER blob is read as                *)
(* <<0x30, kind, payload...>>: kind 1 is a certificate whose subject CN is *)
(* the payload, kind 2 a PKCS#8 private key; anything else fails to parse. *)
(***************************************************************************)
DerSequence == 48
DerKindCert == 1
DerKindKey == 2

ParseCertificate(der) ==
    IF Len(der) >= 2 /\ der[1] = DerSequence /\ der[2] = DerKindCert
    THEN [err |-> "", CommonName |-> StringOf(SubSeq(der, 3, Len(der)))]
    ELSE [err |-> "x509: malformed certificate", CommonName |-> <<>>]

ParsePKCS8PrivateKey(der) ==
    IF Len(der) >= 2 /\ der[1] = DerSequence /\ der[2] = DerKindKey
    THEN [err |-> "", key |-> der]
    ELSE [err |-> "x509: failed to parse private key", key |-> <<>>]

\* a tls.Certificate is [Certificate |-> <<der, ...>>, PrivateKey]
CNFromCert(tlsCert) ==
    IF Len(tlsCert.Certificate) = 0
    THEN [err |-> "No certificate data present", cn |-> <<>>]
    ELSE LET c == ParseCertificate(tlsCert.Certificate[1])
         IN  IF c.err # "" THEN [err |-> "Error parsing certificate: " \o c.err,
                                 cn |-> <<>>]
             ELSE [err |-> "", cn |-> c.CommonName]

(***************************************************************************)
(* Device record and readiness gates (device.go).                          *)
(***************************************************************************)
readyForBootstrap(d) ==
    IF d.BootstrapID = None THEN "BootstrapID missing"
    ELSE IF d.BootstrapURL = None THEN "BootstrapURL missing"
    ELSE IF d.BootstrapCert = None THEN "BootstrapCert missing"
    ELSE Nil

\* a gate that does not look at the certificate
readyForRegisterNoCert(d) ==
    IF d.EndpointName = None THEN "EndpointName missing"
    ELSE IF d.Lwm2mURL = None THEN "Lwm2mURL missing"
    ELSE Nil

readyForRegister(d) ==
    IF d.EndpointName = None THEN "EndpointName missing"
    ELSE IF d.Lwm2mURL = None THEN "Lwm2mURL missing"
    ELSE IF d.Lwm2mCert = None THEN "Lwm2mCert missing"
    ELSE Nil

(***************************************************************************)
(* CoAP vocabulary (go-coap codes and option numbers).                     *)
(***************************************************************************)
Created == "2.01 Created"
Deleted == "2.02 Deleted"
Changed == "2.04 Changed"
BadRequest == "4.00 Bad Request"
Forbidden == "4.03 Forbidden"
MethodNotAllowed == "4.05 Method Not Allowed"
UnsupportedMediaType == "4.15 Unsupported Content-Format"
InternalServerError == "5.00 Internal Server Error"
NoResponse == "none"

\* message.LocationPath and the Uri-Query number Register and Bootstrap use
LocationPath == 8
UriQuery == 15
\* the content-format bsHandleObjectID accepts, and the absent option
AppLwm2mTLV == 99
TextPlain == 0
NoFormat == -1

(***************************************************************************)
(* Inbound handlers of the bootstrap session (device.go).                  *)
(***************************************************************************)
FormatInt(n) == IF n < 0 THEN <<"-">> \o Itoa(0 - n) ELSE Itoa(n)

\* fmt.Sprintf("/%v/%v/%v", objectID, objectInstance, resource)
ResourceKey(objectID, objectInstance, resource) ==
    <<"/">> \o FormatInt(objectID) \o <<"/">> \o FormatInt(objectInstance)
            \o <<"/">> \o FormatInt(resource)

\* a handler that passes every child to s.Put
ResourceChildrenAnyType(tlv) == tlv.Children

\* the children storeObjectInstanceTLV passes to s.Put, in order
ResourceChildren(tlv) == SelectSeq(tlv.Children, LAMBDA child : child.Type = Resource)

\* storeObjectInstanceTLV: its error and the s.Put calls it makes, in order
storeObjectInstanceTLV(objectID, data) ==
    LET r == TLVFromBytes(data)
    IN  IF r.err # "" THEN [err |-> "Error decoding TLV: " \o r.err, puts |-> <<>>]
        ELSE IF r.tlv.Type # ObjectInstance
        THEN [err |-> "Invalid TLV type", puts |-> <<>>]
        ELSE LET kids == ResourceChildren(r.tlv)
             IN  [err |-> Nil,
                  puts |-> [i \in 1..Len(kids) |->
                               [key |-> ResourceKey(objectID, r.tlv.Identifier,
                                                    kids[i].Identifier),
                                data |-> kids[i].Value]]]

\* a handler that stores the body before it looks at the content-format
bsHandleObjectIDStoreFirst(r) ==
    IF r.path = None THEN [code |-> BadRequest, puts |-> <<>>]
    ELSE
    LET objectID == Atoi(r.path[1])
    IN  IF objectID.err # "" THEN [code |-> BadRequest, puts |-> <<>>]
        ELSE IF r.code = "DELETE" THEN [code |-> Deleted, puts |-> <<>>]
        ELSE IF r.code = "PUT"
        THEN IF r.body = None THEN [code |-> BadRequest, puts |-> <<>>]
             ELSE LET st == storeObjectInstanceTLV(objectID.val, r.body[1])
                  IN  IF st.err # Nil THEN [code |-> BadRequest, puts |-> <<>>]
                      ELSE IF r.format = NoFormat \/ r.format # AppLwm2mTLV
                      THEN [code |-> UnsupportedMediaType, puts |-> st.puts]
                      ELSE [code |-> Changed, puts |-> st.puts]
        ELSE [code |-> MethodNotAllowed, puts |-> <<>>]

\* bsHandleObjectID: the response code and the s.Put calls made before it
bsHandleObjectID(r) ==
    IF r.path = None THEN [code |-> BadRequest, puts |-> <<>>]
    ELSE
    LET objectID == Atoi(r.path[1])
    IN  IF objectID.err # "" THEN [code |-> BadRequest, puts |-> <<>>]
        ELSE IF r.code = "DELETE" THEN [code |-> Deleted, puts |-> <<>>]
        ELSE IF r.code = "PUT"
        THEN IF r.format = NoFormat \/ r.format # AppLwm2mTLV
             THEN [code |-> UnsupportedMediaType, puts |-> <<>>]
             ELSE IF r.body = None THEN [code |-> BadRequest, puts |-> <<>>]
             ELSE LET st == storeObjectInstanceTLV(objectID.val, r.body[1])
                  IN  IF st.err # Nil THEN [code |-> BadRequest, puts |-> <<>>]
                      ELSE [code |-> Changed, puts |-> st.puts]
        ELSE [code |-> MethodNotAllowed, puts |-> <<>>]

\* a default handler that answers 4.04
bsHandleDefaultNotFound(r) == [code |-> "4.04 Not Found", puts |-> <<>>]

bsHandleDefault(r) == [code |-> Forbidden, puts |-> <<>>]

\* the router Bootstrap builds: patterns "/0", "/1", "/3", "/bs", else default
Route(path) ==
    LET pattern == IF path = None THEN <<"/">> ELSE <<"/">> \o path[1]
    IN  IF pattern \in {<<"/", "0">>, <<"/", "1">>, <<"/", "3">>} THEN "bsHandleObjectID"
        ELSE IF pattern = <<"/", "b", "s">> THEN "handleBsDone"
        ELSE "bsHandleDefault"

(***************************************************************************)
(* Inputs: what the server and the caller can hand to the program.         *)
(***************************************************************************)
\* one TLV entry with a 1-byte identifier and the smallest length field
Encode(type, id, value) ==
    IF Len(value) < 8 THEN <<type * 64 + Len(value), id>> \o value
    ELSE <<type * 64 + 8, id, Len(value)>> \o value

\* the same with a 2-byte identifier
EncodeWide(type, id, value) ==
    <<type * 64 + 32 + Len(value), id \div 256, id % 256>> \o value

UrlServer == <<"c", "o", "a", "p", "s", ":", "/", "/", "l", "w", "?", "a", "i", "d", "=", "a">>
UrlOtherAccount == <<"c", "o", "a", "p", "s", ":", "/", "/", "l", "w", "?", "a", "i", "d", "=", "b">>
UrlWrongScheme == <<"h", "t", "t", "p", ":", "/", "/", "l", "w", "?", "a", "i", "d", "=", "a">>
UrlBootstrap == <<"c", "o", "a", "p", "s", ":", "/", "/", "b", "s", "?", "a", "i", "d", "=", "a">>
UrlStale == <<"c", "o", "a", "p", "s", ":", "/", "/", "o", "l", "d", "?", "a", "i", "d", "=", "a", "&", "k", "=", "v">>
\* a query with a key that has two values, apart from each other
UrlMulti == <<"c", "o", "a", "p", "s", ":", "/", "/", "m", "?", "k", "=", "v", "&", "a", "i", "d", "=", "a", "&", "k", "=", "w">>

CertDevice == <<DerSequence, DerKindCert>> \o BytesOf(<<"e", "p">>)
CertStale == <<DerSequence, DerKindCert>> \o BytesOf(<<"o", "l", "d">>)
CertBootstrap == <<DerSequence, DerKindCert>> \o BytesOf(<<"b", "i", "d">>)
KeyDevice == <<DerSequence, DerKindKey, 7>>

\* a complete set of credentials: /0/0/0, /0/0/3, /0/0/5
BodyCredentials ==
    Encode(ObjectInstance, 0,
           Encode(Resource, 0, BytesOf(UrlServer)) \o Encode(Resource, 3, CertDevice)
           \o Encode(Resource, 5, KeyDevice))

\* Resource children mixed with children of every other type
BodyMixed ==
    Encode(ObjectInstance, 1,
           Encode(Resource, 0, <<7>>)
           \o Encode(MultiResource, 6, Encode(ResourceInstance, 0, <<1>>))
           \o Encode(ResourceInstance, 4, <<2>>)
           \o Encode(ObjectInstance, 2, Encode(Resource, 9, <<3>>))
           \o Encode(Resource, 2, <<9, 9>>))

\* overwrites /0/0/0 with a URL parseCoapURL rejects
BodyWrongUrl == Encode(ObjectInstance, 0, Encode(Resource, 0, BytesOf(UrlWrongScheme)))

\* a 2-byte instance identifier, and bytes after the root entry
BodyWide == EncodeWide(ObjectInstance, 300, Encode(Resource, 0, <<5>>)) \o <<255>>

BodyEmptyInstance == Encode(ObjectInstance, 0, <<>>)

\* a Resource at the root: C3 03 "1.0"
BodyResourceRoot == <<195, 3, 49, 46, 48>>

\* C8 00: a 1-byte length field that is missing
BodyShort == <<200, 0>>

\* a child cut short inside the root's value
BodyShortChild == Encode(ObjectInstance, 0, <<195, 3, 49>>)

Bodies == {BodyCredentials, BodyMixed, BodyWrongUrl, BodyWide, BodyEmptyInstance,
           BodyResourceRoot, BodyShort, BodyShortChild}

\* a request: its Uri-Path and its body are options (None when absent)
Req(path, code, format, body) ==
    [path |-> path, code |-> code, format |-> format, body |-> body]

\* the inbound requests the server may send on the bootstrap session
Requests ==
    {Req(Some(<<"0">>), "PUT", AppLwm2mTLV, Some(b)) :
         b \in {BodyCredentials, BodyMixed, BodyWrongUrl, BodyEmptyInstance,
                BodyResourceRoot, BodyShortChild}}
    \cup {Req(Some(<<"1">>), "PUT", AppLwm2mTLV, Some(BodyWide)),
          Req(Some(<<"0">>), "PUT", AppLwm2mTLV, None),
          Req(Some(<<"0">>), "PUT", TextPlain, Some(BodyMixed)),
          Req(Some(<<"3">>), "PUT", NoFormat, Some(BodyMixed)),
          Req(Some(<<"3">>), "DELETE", NoFormat, None),
          Req(Some(<<"0">>), "GET", NoFormat, None),
          Req(Some(<<"b", "s">>), "POST", NoFormat, None),
          Req(Some(<<"5">>), "PUT", AppLwm2mTLV, Some(BodyMixed))}

\* the requests of a bootstrap in which one write is refused
SessionRequests ==
    {Req(Some(<<"0">>), "PUT", AppLwm2mTLV, Some(b)) :
         b \in {BodyCredentials, BodyWrongUrl, BodyResourceRoot}}
    \cup {Req(Some(<<"1">>), "PUT", AppLwm2mTLV, Some(BodyWide)),
          Req(Some(<<"b", "s">>), "POST", NoFormat, None)}

\* paths that reach bsHandleObjectID only when it is called directly
DirectPaths == {None} \cup {Some(p) : p \in {<<"x">>, <<"b", "s">>, <<"0", "/", "1">>,
                                             <<"-", "1">>, <<"0", "7">>}}

Opt(id, value) == [ID |-> id, Value |-> value]

\* the option lists a response to POST rd may carry
ResponseOptions ==
    {<<>>,
     <<Opt(LocationPath, <<"r", "d">>)>>,
     <<Opt(LocationPath, <<"r", "d">>), Opt(UriQuery, <<"b", "=", "u">>),
       Opt(LocationPath, <<"x", "1">>)>>,
     <<Opt(UriQuery, <<"b", "=", "u">>)>>}

\* DeviceFromBootstrapCredentials / DeviceFromLWM2MCredentials with a
\* certificate pair that loads
NoDevice == [AccountID |-> <<>>, BootstrapID |-> None, BootstrapURL |-> None,
             BootstrapCert |-> None, EndpointName |-> None, Lwm2mURL |-> None,
             Lwm2mCert |-> None]

TlsCertificate(der, key) == [Certificate |-> <<der>>, PrivateKey |-> key]

DeviceFromBootstrapCredentials(bsURL, der, key) ==
    LET certificate == TlsCertificate(der, key)
        parsedBsURL == parseCoapURL(bsURL).url
    IN  [NoDevice EXCEPT !.AccountID = QueryValues(parsedBsURL, <<"a", "i", "d">>)[1],
                         !.BootstrapID = Some(CNFromCert(certificate).cn),
                         !.BootstrapURL = Some(parsedBsURL),
                         !.BootstrapCert = Some(certificate)]

DeviceFromLWM2MCredentials(url, der, key) ==
    LET certificate == TlsCertificate(der, key)
        parsedURL == parseCoapURL(url).url
    IN  [NoDevice EXCEPT !.AccountID = QueryValues(parsedURL, <<"a", "i", "d">>)[1],
                         !.EndpointName = Some(CNFromCert(certificate).cn),
                         !.Lwm2mURL = Some(parsedURL),
                         !.Lwm2mCert = Some(certificate)]

DeviceBs == DeviceFromBootstrapCredentials(UrlBootstrap, CertBootstrap, KeyDevice)
DeviceLw == DeviceFromLWM2MCredentials(UrlStale, CertStale, KeyDevice)
DeviceMulti == DeviceFromLWM2MCredentials(UrlMulti, CertStale, KeyDevice)
\* a device bootstrapped before: both sets of fields present
DeviceBoth == [DeviceBs EXCEPT !.EndpointName = DeviceLw.EndpointName,
                               !.Lwm2mURL = DeviceLw.Lwm2mURL,
                               !.Lwm2mCert = DeviceLw.Lwm2mCert]

BootstrapFields == {"BootstrapID", "BootstrapURL", "BootstrapCert"}
Lwm2mFields == {"EndpointName", "Lwm2mURL", "Lwm2mCert"}

Without(d, f) == [d EXCEPT ![f] = None]

\* a store directory left by an earlier run, for another account
StaleFiles ==
    (escapeKey(ResourceKey(0, 0, 0)) :> BytesOf(UrlOtherAccount))
    @@ (escapeKey(ResourceKey(0, 0, 3)) :> CertStale)
    @@ (escapeKey(ResourceKey(0, 0, 5)) :> KeyDevice)

MemStoreNew == [kind |-> "memory", m |-> EmptyMap]
FsStoreNew == [kind |-> "filesystem", m |-> EmptyMap]
FsStoreStale == [kind |-> "filesystem", m |-> StaleFiles]

\* the call main makes first, the device it is made on and the store
InitCalls ==
    {[pc |-> "call_bootstrap", device |-> DeviceBs, store |-> MemStoreNew],
     [pc |-> "call_bootstrap", device |-> DeviceBoth, store |-> FsStoreStale],
     [pc |-> "call_bootstrap", device |-> DeviceLw, store |-> MemStoreNew],
     [pc |-> "call_register", device |-> DeviceLw, store |-> FsStoreStale],
     [pc |-> "call_register", device |-> DeviceBs, store |-> MemStoreNew],
     [pc |-> "call_register", device |-> DeviceMulti, store |-> MemStoreNew]}
    \cup {[pc |-> "call_bootstrap", device |-> Without(DeviceBs, f),
           store |-> MemStoreNew] : f \in BootstrapFields}
    \cup {[pc |-> "call_register", device |-> Without(DeviceLw, f),
           store |-> MemStoreNew] : f \in Lwm2mFields}

(***************************************************************************)
(* Session steps of Bootstrap and Register (device.go), as operators.      *)
(***************************************************************************)
ErrCancelled == "Context expired waiting for bootstrap to finish"
ErrTimeout == "Timeout waiting for bootstrap to finish"
\* a call that returns without the deferred Close
DeferCloseForgotten(c, which) == c

\* defer co.Close(): the session named which is closed when the call returns
DeferClose(c, which) == [c EXCEPT ![which] = "closed"]
\* a select whose timer case falls through to the reload
SelectOutcomeTimerIgnored(case) ==
    CASE case = "ctx" -> ErrCancelled
      [] case = "timeout" -> Nil
      [] case = "bsDone" -> Nil

\* a select whose cancellation case reports the timer's error
SelectOutcomeCancelAsTimeout(case) ==
    CASE case = "ctx" -> ErrTimeout
      [] case = "timeout" -> ErrTimeout
      [] case = "bsDone" -> Nil

\* what the three cases of Bootstrap's select return; Nil goes on to the reload
SelectOutcome(case) ==
    CASE case = "ctx" -> ErrCancelled
      [] case = "timeout" -> ErrTimeout
      [] case = "bsDone" -> Nil
\* a finish handler that closes the channel without the sync.Once
handleBsDoneNoOnce(f) ==
    [once |-> TRUE, bsDone |-> TRUE, panicked |-> f.panicked \/ f.bsDone]

\* handleBsDone: once.Do(func() { close(bsDone) }); closing a closed channel
\* panics
handleBsDone(f) ==
    IF f.once THEN f
    ELSE [once |-> TRUE, bsDone |-> TRUE, panicked |-> f.panicked \/ f.bsDone]

\* the Uri-Query options of Bootstrap's POST bs
BootstrapOptions(d) ==
    <<Opt(UriQuery, <<"e", "p", "=">> \o d.BootstrapID[1]),
      Opt(UriQuery, <<"a", "i", "d", "=">> \o d.AccountID)>>

\* the keys of a parsed query, each once, as Go's map of values holds them
QueryKeys(u) == {u.Query[i][1] : i \in 1..Len(u.Query)}

Orderings(S) == {o \in [1..Cardinality(S) -> S] : \A a \in S : \E i \in DOMAIN o : o[i] = a}

\* options built from the first value of each key only
RegisterOptionsFirstValue(d, keyOrder) ==
    <<Opt(UriQuery, <<"e", "p", "=">> \o d.EndpointName[1])>>
    \o [k \in 1..Len(keyOrder) |->
           Opt(UriQuery, keyOrder[k] \o <<"=">>
                         \o QueryValues(d.Lwm2mURL[1], keyOrder[k])[1])]

\* the Uri-Query options of Register's POST rd, for one iteration order of
\* the map d.Lwm2mURL.Query()
RegisterOptions(d, keyOrder) ==
    <<Opt(UriQuery, <<"e", "p", "=">> \o d.EndpointName[1])>>
    \o Flatten([k \in 1..Len(keyOrder) |->
                  LET values == QueryValues(d.Lwm2mURL[1], keyOrder[k])
                  IN  [j \in 1..Len(values) |->
                          Opt(UriQuery, keyOrder[k] \o <<"=">> \o values[j])]])

\* a location path that keeps only the last Location-Path option
LocationOfLastOnly(options) ==
    IF \E i \in DOMAIN options : options[i].ID = LocationPath
    THEN <<"/">> \o options[CHOOSE i \in DOMAIN options :
                                 /\ options[i].ID = LocationPath
                                 /\ \A j \in DOMAIN options :
                                        options[j].ID = LocationPath => j <= i].Value
    ELSE <<>>

RECURSIVE LocationOf(_)
\* locationPath = locationPath + "/" + string(option.Value) over the
\* Location-Path options of the response
LocationOf(options) ==
    IF options = <<>> THEN <<>>
    ELSE LET option == options[Len(options)]
             before == LocationOf(SubSeq(options, 1, Len(options) - 1))
         IN  IF option.ID # LocationPath THEN before
             ELSE before \o <<"/">> \o option.Value

\* parseCoapURL, worked out once for each URL text of the inputs
CoapURLs == [u \in {UrlServer, UrlOtherAccount, UrlWrongScheme, UrlBootstrap, UrlStale,
                    UrlMulti} |-> parseCoapURL(u)]

\* loadLW2MCredentialsFromStore, up to each of its three reads of the store
LoadURL(s) ==
    LET got == StoreGet(s, ResourceKey(0, 0, 0))
    IN  IF got.err # "" THEN [err |-> "Error retrieving LWM2M URL: " \o got.err,
                              url |-> NoURL]
        ELSE LET text == StringOf(got.data)
                 p == IF text \in DOMAIN CoapURLs THEN CoapURLs[text]
                      ELSE parseCoapURL(text)
             IN  IF p.err # "" THEN [err |-> "LWM2M URL invalid: " \o p.err, url |-> NoURL]
                 ELSE [err |-> Nil, url |-> p.url]

LoadCertificate(s) ==
    LET got == StoreGet(s, ResourceKey(0, 0, 3))
    IN  IF got.err # ""
        THEN [err |-> "Error retrieving Device Certificate: " \o got.err, der |-> <<>>]
        ELSE IF ParseCertificate(got.data).err # ""
        THEN [err |-> "Device Certificate is invalid: " \o ParseCertificate(got.data).err,
              der |-> <<>>]
        ELSE [err |-> Nil, der |-> got.data]

LoadPrivateKey(s) ==
    LET got == StoreGet(s, ResourceKey(0, 0, 5))
    IN  IF got.err # ""
        THEN [err |-> "Error retrieving Device Private Key: " \o got.err, key |-> <<>>]
        ELSE IF ParsePKCS8PrivateKey(got.data).err # ""
        THEN [err |-> "Device Private Key is invalid: "
                         \o ParsePKCS8PrivateKey(got.data).err, key |-> <<>>]
        ELSE [err |-> Nil, key |-> got.data]

\* a reload that keeps an endpoint name the device already has
AssignCredentialsKeepName(d, endpointName, lwm2mURL, cert) ==
    [d EXCEPT !.EndpointName = IF @ = None THEN Some(endpointName) ELSE @,
              !.Lwm2mURL = Some(lwm2mURL),
              !.Lwm2mCert = Some(cert)]

\* a reload that takes the account of the stored URL for the device's
AssignCredentialsAndAccount(d, endpointName, lwm2mURL, cert) ==
    [d EXCEPT !.EndpointName = Some(endpointName),
              !.Lwm2mURL = Some(lwm2mURL),
              !.Lwm2mCert = Some(cert),
              !.AccountID = QueryValues(lwm2mURL, <<"a", "i", "d">>)[1]]

\* the three assignments that end loadLW2MCredentialsFromStore
AssignCredentials(d, endpointName, lwm2mURL, cert) ==
    [d EXCEPT !.EndpointName = Some(endpointName),
              !.Lwm2mURL = Some(lwm2mURL),
              !.Lwm2mCert = Some(cert)]

(***************************************************************************)
(* State.                                                                  *)
(***************************************************************************)
VARIABLES
    pc,         \* where main is: the call it makes next, or the step inside it
    device,     \* the Device record
    device0,    \* the Device record as it was before the first call
    store,      \* the Store the device holds
    co,         \* the DTLS sessions of Bootstrap (bs) and Register (reg)
    ctxDone,    \* the caller's context has been cancelled
    timer,      \* Bootstrap's 10-second timer
    finish,     \* [once, bsDone, panicked]: sync.Once, the channel, a fault
    handlers,   \* inbound handlers in flight, in order of arrival
    nreq,       \* inbound requests received so far
    lastDone,   \* the handler that returned last
    trace,      \* dials and outbound requests, in order
    bsErr,      \* what Bootstrap returned ("running" before)
    regErr,     \* what Register returned ("running" before)
    local,      \* locals of the running call
    hist,       \* bookkeeping the properties read
    \* a Store called directly, one call at a time
    sut,        \* the Store, as [kind, m]
    heap,       \* the byte slices allocated so far, by address
    refs,       \* MemStore's map: key -> address of the slice it holds
    held,       \* addresses of the slices the caller holds
    last,       \* the last call, its arguments and what it returned
    puts,       \* key -> the bytes of the most recent Put, if any
    \* a Store called by goroutines that run at once
    sut0,       \* the Store before the calls
    workers,    \* the calls in flight: what each does and how far it is
    crash,      \* the runtime stopped the process
    \* a buffer handed to TLVFromBytes
    whole,      \* the buffer as it was made
    buf,        \* whole, or a prefix of it: the bytes TLVFromBytes is given
    parsed      \* what TLVFromBytes returned for buf (None before the call)

program == <<pc, device, device0, store, co, ctxDone, timer, finish, handlers, nreq,
             lastDone, trace, bsErr, regErr, local, hist>>

storeBench == <<sut, heap, refs, held, last, puts>>

raceBench == <<sut0, workers, crash>>

tlvBench == <<whole, buf, parsed>>

bench == <<storeBench, raceBench, tlvBench>>

vars == <<program, bench>>

NoReq == Req(None, "", NoFormat, None)

NoDone == [req |-> NoReq, code |-> NoResponse]

NoLocal == [lwm2mURL |-> NoURL, der |-> <<>>, locationPath |-> <<>>]

NoCall == [op |-> "none", key |-> <<>>, data |-> <<>>, err |-> "", out |-> 0,
           before |-> MemStoreNew, had |-> {}, n |-> 0]

\* no Store is called directly
StoreBenchIdle ==
    /\ sut = MemStoreNew
    /\ heap = <<>>
    /\ refs = EmptyMap
    /\ held = {}
    /\ last = NoCall
    /\ puts = EmptyMap

\* no goroutines call a Store
RaceBenchIdle ==
    /\ sut0 = MemStoreNew
    /\ workers = <<>>
    /\ crash = FALSE

\* no buffer is decoded
TlvBenchIdle ==
    /\ whole = <<>>
    /\ buf = <<>>
    /\ parsed = None

InitMain(calls) ==
    /\ \E c \in calls : /\ pc = c.pc
                         /\ device = c.device
                         /\ device0 = c.device
                         /\ store = c.store
    /\ co = [bs |-> "none", reg |-> "none"]
    /\ ctxDone = FALSE
    /\ timer = "unset"
    /\ finish = [once |-> FALSE, bsDone |-> FALSE, panicked |-> FALSE]
    /\ handlers = <<>>
    /\ nreq = 0
    /\ lastDone = NoDone
    /\ trace = <<>>
    /\ bsErr = "running"
    /\ regErr = "running"
    /\ local = NoLocal
    /\ hist = [ready |-> {}, taken |-> "none", reloadRan |-> FALSE, nChanged |-> 0,
               nFinish |-> 0, nClose |-> 0, bsSent |-> 0, orderly |-> TRUE,
               store0 |-> store, prior |-> store, accepted |-> <<>>,
               cancelPc |-> "none", created |-> None, deleteCode |-> NoResponse,
               fault |-> "none"]

\* main alone, and nothing else
MainIdle == InitMain({[pc |-> "exit", device |-> NoDevice, store |-> MemStoreNew]})

Init == InitMain(InitCalls) /\ StoreBenchIdle /\ RaceBenchIdle /\ TlvBenchIdle

Event(op, sess, path, options) ==
    [op |-> op, sess |-> sess, path |-> path, options |-> options]

(***************************************************************************)
(* Bootstrap.                                                              *)
(***************************************************************************)
\* a return of Bootstrap after the dial: the deferred Close and Stop run, and
\* main exits on an error
BootstrapReturn(err) ==
    /\ bsErr' = err
    /\ co' = DeferClose(co, "bs")
    /\ timer' = IF timer = "unset" THEN "unset" ELSE "stopped"
    /\ pc' = IF err = Nil THEN "call_register" ELSE "exit"

\* a select after which every case goes on to the reload
SelectReturnAlwaysReload(case) ==
    /\ pc' = "bs_reload0"
    /\ timer' = "running"
    /\ UNCHANGED <<bsErr, co>>

\* the select of Bootstrap takes one of its ready cases
SelectReturn(case) ==
    IF SelectOutcome(case) = Nil
    THEN /\ pc' = "bs_reload0"
         /\ timer' = "running"
         /\ UNCHANGED <<bsErr, co>>
    ELSE /\ bsErr' = SelectOutcome(case)
         /\ co' = DeferClose(co, "bs")
         /\ timer' = "stopped"
         /\ pc' = "exit"

SelectTake(case, ready) ==
    /\ hist' = [hist EXCEPT !.ready = ready, !.taken = case]
    /\ SelectReturn(case)

BootstrapNotReady ==
    /\ pc = "call_bootstrap"
    /\ readyForBootstrap(device) # Nil
    /\ bsErr' = "Unable to bootstrap: " \o readyForBootstrap(device)
    /\ pc' = "exit"
    /\ UNCHANGED <<device, device0, bench, store, co, ctxDone, timer, finish, handlers, nreq,
                   lastDone, trace, regErr, local, hist>>

BootstrapDialFail ==
    /\ pc = "call_bootstrap"
    /\ readyForBootstrap(device) = Nil
    /\ trace' = Append(trace, Event("dial", "bs", device.BootstrapURL[1].Host, <<>>))
    /\ bsErr' = "Error dialing"
    /\ pc' = "exit"
    /\ UNCHANGED <<device, device0, bench, store, co, ctxDone, timer, finish, handlers, nreq,
                   lastDone, regErr, local, hist>>

BootstrapDial ==
    /\ pc = "call_bootstrap"
    /\ readyForBootstrap(device) = Nil
    /\ trace' = Append(trace, Event("dial", "bs", device.BootstrapURL[1].Host, <<>>))
    /\ co' = [co EXCEPT !.bs = "open"]
    /\ pc' = "bs_post"
    /\ UNCHANGED <<device, device0, bench, store, ctxDone, timer, finish, handlers, nreq,
                   lastDone, bsErr, regErr, local, hist>>

BsPostSent == Append(trace, Event("POST", "bs", <<"b", "s">>, BootstrapOptions(device)))

BsPostError ==
    /\ pc = "bs_post"
    /\ trace' = BsPostSent
    /\ BootstrapReturn("Error sending request")
    /\ UNCHANGED <<device, device0, bench, store, ctxDone, finish, handlers, nreq, lastDone,
                   regErr, local, hist>>

BsPostWrongCode ==
    /\ pc = "bs_post"
    /\ trace' = BsPostSent
    /\ \E code \in {BadRequest, Created} : BootstrapReturn("Wrong return code: " \o code)
    /\ UNCHANGED <<device, device0, bench, store, ctxDone, finish, handlers, nreq, lastDone,
                   regErr, local, hist>>

\* POST bs answered 2.04: the timer starts and the select is entered; it
\* takes a case that is ready already, or blocks
\* a wait that sees only what is signalled after it began
BsPostChangedBlocks ==
    /\ pc = "bs_post"
    /\ trace' = BsPostSent
    /\ pc' = "bs_blocked"
    /\ timer' = "running"
    /\ UNCHANGED <<bsErr, co, hist>>
    /\ UNCHANGED <<device, device0, bench, store, ctxDone, finish, handlers, nreq, lastDone,
                   regErr, local>>

BsPostChanged ==
    /\ pc = "bs_post"
    /\ trace' = BsPostSent
    /\ LET ready == {c \in {"ctx"} : ctxDone} \cup {c \in {"bsDone"} : finish.bsDone}
       IN  IF ready = {}
           THEN /\ pc' = "bs_blocked"
                /\ timer' = "running"
                /\ UNCHANGED <<bsErr, co, hist>>
           ELSE \E c \in ready : SelectTake(c, ready)
    /\ UNCHANGED <<device, device0, bench, store, ctxDone, finish, handlers, nreq, lastDone,
                   regErr, local>>

\* the caller cancels the context before Bootstrap has returned; a blocked
\* select takes the case at once
Cancel ==
    /\ ~ctxDone
    /\ pc \in {"call_bootstrap", "bs_post", "bs_blocked", "bs_reload0", "bs_reload3",
              "bs_reload5"}
    /\ ctxDone' = TRUE
    /\ IF pc = "bs_blocked"
       THEN /\ hist' = [hist EXCEPT !.ready = {"ctx"}, !.taken = "ctx",
                                    !.cancelPc = pc]
            /\ SelectReturn("ctx")
       ELSE /\ hist' = [hist EXCEPT !.cancelPc = pc]
            /\ UNCHANGED <<pc, bsErr, co, timer>>
    /\ UNCHANGED <<device, device0, bench, store, finish, handlers, nreq, lastDone, trace,
                   regErr, local>>

\* the timer fires while the select is blocked
TimerFire ==
    /\ pc = "bs_blocked"
    /\ timer = "running"
    /\ SelectTake("timeout", {"timeout"})
    /\ UNCHANGED <<device, device0, bench, store, ctxDone, finish, handlers, nreq, lastDone,
                   trace, regErr, local>>

ReloadFail(err) == BootstrapReturn("Invalid credentials returned from bootstrap: " \o err)

Reload0 ==
    /\ pc = "bs_reload0"
    /\ hist' = [hist EXCEPT !.reloadRan = TRUE]
    /\ LET r == LoadURL(store)
       IN  IF r.err # Nil THEN ReloadFail(r.err) /\ UNCHANGED local
           ELSE /\ local' = [local EXCEPT !.lwm2mURL = r.url]
                /\ pc' = "bs_reload3"
                /\ UNCHANGED <<bsErr, co, timer>>
    /\ UNCHANGED <<device, device0, bench, store, ctxDone, finish, handlers, nreq, lastDone,
                   trace, regErr>>

Reload3 ==
    /\ pc = "bs_reload3"
    /\ LET r == LoadCertificate(store)
       IN  IF r.err # Nil THEN ReloadFail(r.err) /\ UNCHANGED local
           ELSE /\ local' = [local EXCEPT !.der = r.der]
                /\ pc' = "bs_reload5"
                /\ UNCHANGED <<bsErr, co, timer>>
    /\ UNCHANGED <<device, device0, bench, store, ctxDone, finish, handlers, nreq, lastDone,
                   trace, regErr, hist>>

Reload5 ==
    /\ pc = "bs_reload5"
    /\ LET r == LoadPrivateKey(store)
           cert == TlsCertificate(local.der, r.key)
           name == CNFromCert(cert)
       IN  IF r.err # Nil THEN ReloadFail(r.err) /\ UNCHANGED device
           ELSE IF name.err # ""
           THEN ReloadFail("Invalid Device Certificate: " \o name.err) /\ UNCHANGED device
           ELSE /\ device' = AssignCredentials(device, name.cn, local.lwm2mURL, cert)
                /\ IF readyForRegister(device') # Nil
                   THEN \* log.Fatalf: the process exits, no deferred call runs
                        /\ bsErr' = "fatal" /\ pc' = "exit" /\ UNCHANGED <<co, timer>>
                   ELSE BootstrapReturn(Nil)
    /\ local' = NoLocal
    /\ UNCHANGED <<device0, bench, store, ctxDone, finish, handlers, nreq, lastDone, trace,
                   regErr, hist>>

(***************************************************************************)
(* Inbound requests of the bootstrap session.  The transport runs each     *)
(* handler on a worker of its own; every s.Put is one step.                *)
(***************************************************************************)
\* what the routed handler does with a request
Handle(r) ==
    IF Route(r.path) = "bsHandleObjectID" THEN bsHandleObjectID(r)
    ELSE IF Route(r.path) = "handleBsDone" THEN [code |-> NoResponse, puts |-> <<>>]
    ELSE bsHandleDefault(r)

\* Handle, worked out once for each request the server may send
Plans == [r \in Requests \cup SessionRequests |-> Handle(r)]

Plan(r) == Plans[r]

RemoveAt(q, i) == SubSeq(q, 1, i - 1) \o SubSeq(q, i + 1, Len(q))

\* the server sends a request while the session is open
Dispatch(r, max) ==
    /\ pc # "exit"
    /\ co.bs = "open"
    /\ nreq < max
    /\ nreq' = nreq + 1
    /\ handlers' = Append(handlers, [req |-> r, done |-> 0])
    /\ hist' = [hist EXCEPT
                  !.bsSent = @ + (IF Route(r.path) = "handleBsDone" THEN 1 ELSE 0),
                  !.orderly = @ /\ hist.bsSent = 0 /\ handlers = <<>>,
                  !.prior = IF hist.orderly /\ handlers = <<>> THEN store ELSE @]
    /\ UNCHANGED <<pc, device, device0, bench, store, co, ctxDone, timer, finish, lastDone,
                   trace, bsErr, regErr, local>>

Finished(h, code) == [req |-> h.req, code |-> code]

\* a handler whose refusal ends Bootstrap with an error
HandlerStepFatal(i) ==
    /\ pc # "exit"
    /\ i \in 1..Len(handlers)
    /\ Route(handlers[i].req.path) # "handleBsDone"
    /\ LET h == handlers[i]
           plan == Plan(h.req)
           n == Len(plan.puts)
           put == plan.puts[h.done + 1]
       IN  /\ store' = IF n = 0 THEN store ELSE StorePut(store, put.key, put.data)
           /\ IF h.done + 1 >= n
              THEN /\ handlers' = RemoveAt(handlers, i)
                   /\ lastDone' = Finished(h, plan.code)
              ELSE /\ handlers' = [handlers EXCEPT ![i].done = h.done + 1]
                   /\ UNCHANGED lastDone
           /\ hist' = IF h.done + 1 >= n /\ plan.code = Changed
                      THEN [hist EXCEPT !.nChanged = @ + 1,
                                        !.accepted = IF hist.orderly
                                                     THEN Append(@, h.req) ELSE @]
                      ELSE hist
           /\ IF h.done + 1 >= n /\ plan.code # Changed /\ plan.code # Deleted
              THEN pc' = "exit" /\ bsErr' = "Error storing object"
              ELSE UNCHANGED <<pc, bsErr>>
    /\ UNCHANGED <<device, device0, bench, co, ctxDone, timer, finish, nreq, trace,
                   regErr, local>>

\* bsHandleObjectID or bsHandleDefault makes its next s.Put, or answers
HandlerStep(i) ==
    /\ pc # "exit"
    /\ i \in 1..Len(handlers)
    /\ Route(handlers[i].req.path) # "handleBsDone"
    /\ LET h == handlers[i]
           plan == Plan(h.req)
           n == Len(plan.puts)
           put == plan.puts[h.done + 1]
       IN  /\ store' = IF n = 0 THEN store ELSE StorePut(store, put.key, put.data)
           /\ IF h.done + 1 >= n
              THEN /\ handlers' = RemoveAt(handlers, i)
                   /\ lastDone' = Finished(h, plan.code)
              ELSE /\ handlers' = [handlers EXCEPT ![i].done = h.done + 1]
                   /\ UNCHANGED lastDone
           /\ hist' = IF h.done + 1 >= n /\ plan.code = Changed
                      THEN [hist EXCEPT !.nChanged = @ + 1,
                                        !.accepted = IF hist.orderly
                                                     THEN Append(@, h.req) ELSE @]
                      ELSE hist
    /\ UNCHANGED <<pc, device, device0, bench, co, ctxDone, timer, finish, nreq, trace, bsErr,
                   regErr, local>>

\* a handler that has an s.Put still to make
Writing(h) ==
    /\ Route(h.req.path) # "handleBsDone"
    /\ h.done < Len(Plan(h.req).puts)

\* MemStore is a Go map behind no lock.  Two handlers inside Put at once, or
\* a handler inside Put while the reload is inside Get, race on it, and the
\* runtime may end the process with "concurrent map writes" (or "concurrent
\* map read and map write"); when it does not, the calls take effect one
\* after the other as HandlerStep and the reload have them.
MapFault ==
    /\ pc # "exit"
    /\ store.kind = "memory"
    /\ LET writers == {i \in DOMAIN handlers : Writing(handlers[i])}
       IN  \/ Cardinality(writers) >= 2
           \/ writers # {} /\ pc \in {"bs_reload0", "bs_reload3", "bs_reload5"}
    /\ pc' = "exit"
    /\ hist' = [hist EXCEPT !.fault = "concurrent map writes"]
    /\ UNCHANGED <<device, device0, bench, store, co, ctxDone, timer, finish, handlers, nreq,
                   lastDone, trace, bsErr, regErr, local>>

\* handleBsDone runs; a blocked select takes the finish event at once
FinishStep(i) ==
    /\ pc # "exit"
    /\ i \in 1..Len(handlers)
    /\ Route(handlers[i].req.path) = "handleBsDone"
    /\ finish' = handleBsDone(finish)
    /\ handlers' = RemoveAt(handlers, i)
    /\ lastDone' = Finished(handlers[i], NoResponse)
    /\ LET closed == IF (finish'.bsDone /\ ~finish.bsDone)
                        \/ (finish'.panicked /\ ~finish.panicked) THEN 1 ELSE 0
       IN  IF finish'.panicked
           THEN \* a panic in a handler ends the process
                /\ pc' = "exit"
                /\ hist' = [hist EXCEPT !.nFinish = @ + 1, !.nClose = @ + closed]
                /\ UNCHANGED <<bsErr, co, timer>>
           ELSE IF pc = "bs_blocked" /\ finish'.bsDone
           THEN /\ pc' = "bs_reload0"
                /\ hist' = [hist EXCEPT !.nFinish = @ + 1, !.nClose = @ + closed,
                                        !.ready = {"bsDone"}, !.taken = "bsDone"]
                /\ UNCHANGED <<bsErr, co, timer>>
           ELSE /\ hist' = [hist EXCEPT !.nFinish = @ + 1, !.nClose = @ + closed]
                /\ UNCHANGED <<pc, bsErr, co, timer>>
    /\ UNCHANGED <<device, device0, bench, store, ctxDone, nreq, trace, regErr, local>>

(***************************************************************************)
(* Register.                                                               *)
(***************************************************************************)
RegisterReturn(err) ==
    /\ regErr' = err
    /\ co' = DeferClose(co, "reg")
    /\ pc' = "exit"

RegisterNotReady ==
    /\ pc = "call_register"
    /\ readyForRegister(device) # Nil
    /\ regErr' = "Unable to register: " \o readyForRegister(device)
    /\ pc' = "exit"
    /\ UNCHANGED <<device, device0, bench, store, co, ctxDone, timer, finish, handlers, nreq,
                   lastDone, trace, bsErr, local, hist>>

RegisterDialFail ==
    /\ pc = "call_register"
    /\ readyForRegister(device) = Nil
    /\ trace' = Append(trace, Event("dial", "reg", device.Lwm2mURL[1].Host, <<>>))
    /\ regErr' = "Error dialing"
    /\ pc' = "exit"
    /\ UNCHANGED <<device, device0, bench, store, co, ctxDone, timer, finish, handlers, nreq,
                   lastDone, bsErr, local, hist>>

RegisterDial ==
    /\ pc = "call_register"
    /\ readyForRegister(device) = Nil
    /\ trace' = Append(trace, Event("dial", "reg", device.Lwm2mURL[1].Host, <<>>))
    /\ co' = [co EXCEPT !.reg = "open"]
    /\ pc' = "reg_post"
    /\ UNCHANGED <<device, device0, bench, store, ctxDone, timer, finish, handlers, nreq,
                   lastDone, bsErr, regErr, local, hist>>

\* POST rd with the options in one of the orders the map iteration can yield
RegPostSent ==
    \E keyOrder \in Orderings(QueryKeys(device.Lwm2mURL[1])) :
        trace' = Append(trace, Event("POST", "reg", <<"r", "d">>,
                                     RegisterOptions(device, keyOrder)))

RegPostError ==
    /\ pc = "reg_post"
    /\ RegPostSent
    /\ RegisterReturn("Error sending request")
    /\ UNCHANGED <<device, device0, bench, store, ctxDone, timer, finish, handlers, nreq,
                   lastDone, bsErr, local, hist>>

RegPostWrongCode ==
    /\ pc = "reg_post"
    /\ RegPostSent
    /\ \E code \in {Changed, BadRequest} :
           RegisterReturn("Wrong return code, expected " \o Created \o " got " \o code)
    /\ UNCHANGED <<device, device0, bench, store, ctxDone, timer, finish, handlers, nreq,
                   lastDone, bsErr, local, hist>>

RegPostCreated ==
    /\ pc = "reg_post"
    /\ RegPostSent
    /\ \E options \in ResponseOptions :
           /\ local' = [local EXCEPT !.locationPath = LocationOf(options)]
           /\ hist' = [hist EXCEPT !.created = Some(options)]
    /\ pc' = "reg_delete"
    /\ UNCHANGED <<device, device0, bench, store, co, ctxDone, timer, finish, handlers, nreq,
                   lastDone, bsErr, regErr>>

RegDeleteSent == Append(trace, Event("DELETE", "reg", local.locationPath, <<>>))

RegDeleteError ==
    /\ pc = "reg_delete"
    /\ trace' = RegDeleteSent
    /\ RegisterReturn("Error sending request")
    /\ UNCHANGED <<device, device0, bench, store, ctxDone, timer, finish, handlers, nreq,
                   lastDone, bsErr, local, hist>>

RegDeleteWrongCode ==
    /\ pc = "reg_delete"
    /\ trace' = RegDeleteSent
    /\ \E code \in {Changed, BadRequest} :
           /\ RegisterReturn("Wrong return code, expected " \o Deleted \o " got " \o code)
           /\ hist' = [hist EXCEPT !.deleteCode = code]
    /\ UNCHANGED <<device, device0, bench, store, ctxDone, timer, finish, handlers, nreq,
                   lastDone, bsErr, local>>

RegDeleteDone ==
    /\ pc = "reg_delete"
    /\ trace' = RegDeleteSent
    /\ RegisterReturn(Nil)
    /\ hist' = [hist EXCEPT !.deleteCode = Deleted]
    /\ UNCHANGED <<device, device0, bench, store, ctxDone, timer, finish, handlers, nreq,
                   lastDone, bsErr, local>>

\* the steps of main and of the caller
Main ==
    \/ BootstrapNotReady \/ BootstrapDialFail \/ BootstrapDial
    \/ BsPostError \/ BsPostWrongCode \/ BsPostChanged
    \/ Cancel \/ TimerFire
    \/ Reload0 \/ Reload3 \/ Reload5
    \/ RegisterNotReady \/ RegisterDialFail \/ RegisterDial
    \/ RegPostError \/ RegPostWrongCode \/ RegPostCreated
    \/ RegDeleteError \/ RegDeleteWrongCode \/ RegDeleteDone

\* the steps of the handlers in flight
Serve ==
    \/ \E i \in DOMAIN handlers : HandlerStep(i)
    \/ \E i \in DOMAIN handlers : FinishStep(i)
    \/ MapFault

Next ==
    \/ Main
    \/ Serve
    \/ \E r \in SessionRequests : Dispatch(r, MaxRequests)

Spec == Init /\ [][Next]_vars

NextWide ==
    \/ Main
    \/ Serve
    \/ \E r \in Requests : Dispatch(r, MaxWide)

\* the same program against a server that picks among all of Requests
SpecWide == Init /\ [][NextWide]_vars

\* Bootstrap alone, on a device that is ready for it, against a server that
\* sends requests the handlers refuse, one of each code, a PUT of the
\* credentials and POST /bs, in any order
MaxServed == 3

RefusedRequests ==
    {Req(Some(<<"0">>), "PUT", AppLwm2mTLV, Some(BodyResourceRoot)),
     Req(Some(<<"5">>), "PUT", AppLwm2mTLV, Some(BodyMixed)),
     Req(Some(<<"0">>), "GET", NoFormat, None),
     Req(Some(<<"0">>), "PUT", TextPlain, Some(BodyMixed))}

RefusalRequests ==
    RefusedRequests
    \cup {Req(Some(<<"0">>), "PUT", AppLwm2mTLV, Some(BodyCredentials)),
          Req(Some(<<"b", "s">>), "POST", NoFormat, None)}

InitRefusals ==
    /\ InitMain({[pc |-> "call_bootstrap", device |-> DeviceBs, store |-> MemStoreNew]})
    /\ StoreBenchIdle /\ RaceBenchIdle /\ TlvBenchIdle

NextRefusals ==
    \/ BootstrapDialFail \/ BootstrapDial
    \/ BsPostError \/ BsPostWrongCode \/ BsPostChanged
    \/ Cancel \/ TimerFire
    \/ Reload0 \/ Reload3 \/ Reload5
    \/ Serve
    \/ \E r \in RefusalRequests : Dispatch(r, MaxServed)

SpecRefusals == InitRefusals /\ [][NextRefusals]_vars

(***************************************************************************)
(* Bootstrap over an FsStore whose Put can fail: os.MkdirAll or the open   *)
(* of ioutil.WriteFile fails and the file is as it was, or the write fails *)
(* after the open has created or truncated the file.                       *)
(***************************************************************************)
IoRequests == {Req(Some(<<"0">>), "PUT", AppLwm2mTLV, Some(BodyCredentials)),
               Req(Some(<<"b", "s">>), "POST", NoFormat, None)}

\* what a failed FsStore.Put can leave of the file
FsStorePutFailed(s, key) == {s, FsStorePut(s, key, <<>>)}

\* the next s.Put of bsHandleObjectID returns an error, which
\* storeObjectInstanceTLV drops
HandlerStepPutError(i) ==
    /\ pc # "exit"
    /\ i \in 1..Len(handlers)
    /\ Route(handlers[i].req.path) # "handleBsDone"
    /\ store.kind = "filesystem"
    /\ LET h == handlers[i]
           plan == Plan(h.req)
           n == Len(plan.puts)
           put == plan.puts[h.done + 1]
       IN  /\ n > 0
           /\ store' \in FsStorePutFailed(store, put.key)
           /\ IF h.done + 1 >= n
              THEN /\ handlers' = RemoveAt(handlers, i)
                   /\ lastDone' = Finished(h, plan.code)
              ELSE /\ handlers' = [handlers EXCEPT ![i].done = h.done + 1]
                   /\ UNCHANGED lastDone
           /\ hist' = IF h.done + 1 >= n /\ plan.code = Changed
                      THEN [hist EXCEPT !.nChanged = @ + 1,
                                        !.accepted = IF hist.orderly
                                                     THEN Append(@, h.req) ELSE @]
                      ELSE hist
    /\ UNCHANGED <<pc, device, device0, bench, co, ctxDone, timer, finish, nreq, trace, bsErr,
                   regErr, local>>

InitIo ==
    /\ InitMain({[pc |-> "call_bootstrap", device |-> DeviceBs, store |-> FsStoreNew]})
    /\ StoreBenchIdle /\ RaceBenchIdle /\ TlvBenchIdle

NextIo ==
    \/ BootstrapDialFail
    \/ BootstrapDial
    \/ BsPostError
    \/ BsPostWrongCode
    \/ BsPostChanged
    \/ Cancel
    \/ TimerFire
    \/ Reload0
    \/ Reload3
    \/ Reload5
    \/ \E i \in 1..Len(handlers) : HandlerStep(i)
    \/ \E i \in 1..Len(handlers) : HandlerStepPutError(i)
    \/ \E i \in 1..Len(handlers) : FinishStep(i)
    \/ \E r \in IoRequests : Dispatch(r, MaxServed)

SpecIo == InitIo /\ [][NextIo]_vars

(***************************************************************************)
(* Bootstrap on a MemStore, with the runtime's timer firing once it is due *)
(* and the goroutine of Bootstrap running on once it is past the select.   *)
(***************************************************************************)
MaxLive == 2

NextLive ==
    \/ BootstrapDialFail
    \/ BootstrapDial
    \/ BsPostError
    \/ BsPostWrongCode
    \/ BsPostChanged
    \/ Cancel
    \/ TimerFire
    \/ Reload0
    \/ Reload3
    \/ Reload5
    \/ Serve
    \/ \E r \in IoRequests : Dispatch(r, MaxLive)

SpecLive ==
    /\ InitRefusals
    /\ [][NextLive]_vars
    /\ WF_vars(TimerFire)
    /\ WF_vars(Reload0)
    /\ WF_vars(Reload3)
    /\ WF_vars(Reload5)


(***************************************************************************)
(* A Store called directly: Put and Get on either backend, one call at a   *)
(* time, by a caller that keeps and overwrites the slices it passed and    *)
(* the slices it got.                                                      *)
(***************************************************************************)
\* calls of Put and Get in one run
MaxCalls == 4

StoreKeys == {ResourceKey(0, 0, 0), ResourceKey(1, 0, 0)}

\* the slice the caller starts with
CallerSlices == <<<<1>>>>

InitStore ==
    /\ MainIdle /\ RaceBenchIdle /\ TlvBenchIdle
    /\ sut \in {MemStoreNew, FsStoreNew, FsStoreStale}
    /\ heap = CallerSlices
    /\ refs = EmptyMap
    /\ held = DOMAIN CallerSlices
    /\ last = NoCall
    /\ puts = [k \in {x \in StoreKeys : escapeKey(x) \in DOMAIN sut.m} |->
                   sut.m[escapeKey(k)]]

\* s.Put(key, heap[a])
StorePutCall(key, a) ==
    /\ a \in held
    /\ last.n < MaxCalls
    /\ sut' = StorePut(sut, key, heap[a])
    /\ IF sut.kind = "memory"
       THEN /\ heap' = MemStorePutSlice(heap, refs, key, a).heap
            /\ refs' = MemStorePutSlice(heap, refs, key, a).m
       ELSE UNCHANGED <<heap, refs>>
    /\ last' = [op |-> "put", key |-> key, data |-> heap[a], err |-> "", out |-> 0,
                before |-> sut, had |-> held, n |-> last.n + 1]
    /\ puts' = MapPut(puts, key, heap[a])
    /\ UNCHANGED <<program, raceBench, tlvBench, held>>

\* data, err := s.Get(key)
StoreGetCall(key) ==
    /\ last.n < MaxCalls
    /\ LET r == StoreGet(sut, key)
           g == IF sut.kind = "memory" THEN MemStoreGetSlice(heap, refs, key)
                ELSE IF r.err = ""
                     THEN [err |-> "", heap |-> Append(heap, r.data), out |-> Len(heap) + 1]
                     ELSE [err |-> r.err, heap |-> heap, out |-> 0]
       IN  /\ heap' = g.heap
           /\ held' = IF g.err = "" THEN held \cup {g.out} ELSE held
           /\ last' = [op |-> "get", key |-> key,
                       data |-> IF g.err = "" THEN g.heap[g.out] ELSE <<>>,
                       err |-> g.err, out |-> g.out, before |-> sut,
                       had |-> held, n |-> last.n + 1]
    /\ UNCHANGED <<program, raceBench, tlvBench, sut, refs, puts>>

\* the caller overwrites the first element of a slice it holds
Scribble(a) ==
    /\ a \in held
    /\ heap[a] # <<>>
    /\ heap[a][1] # 7
    /\ heap' = [heap EXCEPT ![a][1] = 7]
    /\ UNCHANGED <<program, raceBench, tlvBench, sut, refs, held, last, puts>>

NextStore ==
    \/ \E key \in StoreKeys, a \in DOMAIN heap : StorePutCall(key, a)
    \/ \E key \in StoreKeys : StoreGetCall(key)
    \/ \E a \in DOMAIN heap : Scribble(a)

SpecStore == InitStore /\ [][NextStore]_vars

(***************************************************************************)
(* The two backends called in step: every Put and every Get is made on an *)
(* FsStore over an empty directory (sut) and on an empty MemStore (sut0). *)
(***************************************************************************)
\* canonical paths /<object>/<instance>/<resource>
CanonicalPaths == {ResourceKey(o, i, r) : o \in {0, 1, 11}, i \in {0, 10}, r \in {0, 5}}

TwinKeys == {ResourceKey(0, 0, 0), ResourceKey(1, 10, 0), ResourceKey(11, 0, 0)}

TwinData == {<<>>, <<1>>, <<2, 3>>}

InitTwin ==
    /\ MainIdle /\ TlvBenchIdle
    /\ sut = FsStoreNew
    /\ sut0 = MemStoreNew
    /\ heap = <<>> /\ refs = EmptyMap /\ held = {} /\ last = NoCall /\ puts = EmptyMap
    /\ workers = <<>>
    /\ crash = FALSE

\* fs.Put(key, data) and mem.Put(key, data)
TwinPut(key, data) ==
    /\ last.n < MaxCalls
    /\ sut' = FsStorePut(sut, key, data)
    /\ sut0' = MemStorePut(sut0, key, data)
    /\ last' = [op |-> "put", key |-> key, data |-> data, err |-> "", out |-> 0,
                before |-> sut, had |-> {}, n |-> last.n + 1,
                twin |-> [err |-> "", data |-> data]]
    /\ puts' = MapPut(puts, key, data)
    /\ UNCHANGED <<program, tlvBench, heap, refs, held, workers, crash>>

\* fs.Get(key) and mem.Get(key)
TwinGet(key) ==
    /\ last.n < MaxCalls
    /\ last' = [op |-> "get", key |-> key, data |-> FsStoreGet(sut, key).data,
                err |-> FsStoreGet(sut, key).err, out |-> 0,
                before |-> sut, had |-> {}, n |-> last.n + 1,
                twin |-> MemStoreGet(sut0, key)]
    /\ UNCHANGED <<program, tlvBench, sut, sut0, heap, refs, held, puts, workers, crash>>

NextTwin ==
    \/ \E key \in TwinKeys, data \in TwinData : TwinPut(key, data)
    \/ \E key \in TwinKeys : TwinGet(key)

SpecTwin == InitTwin /\ [][NextTwin]_vars

(***************************************************************************)
(* A Store called by two goroutines at once, as the handlers of two        *)
(* requests and the reload are.  Neither backend takes a lock: FsStore.Put *)
(* is ioutil.WriteFile (open with O_CREATE|O_TRUNC, write, close) and      *)
(* FsStore.Get is ioutil.ReadFile (open, read); MemStore is a Go map.      *)
(***************************************************************************)
RaceKey == ResourceKey(0, 0, 0)

\* the bytes under RaceKey before the calls, and the bytes the calls put
OldBytes == <<5, 6>>
NewBytes == {<<1, 2>>, <<3>>}

NoResult == [err |-> "", data |-> <<>>]

Worker(op, data) == [op |-> op, key |-> RaceKey, data |-> data, at |-> "start",
                     result |-> NoResult]

Calls == {Worker("get", <<>>)} \cup {Worker("put", d) : d \in NewBytes}

InitRace ==
    /\ MainIdle /\ TlvBenchIdle
    /\ sut0 \in {StorePut(s, RaceKey, OldBytes) : s \in {MemStoreNew, FsStoreNew}}
                \cup {MemStoreNew, FsStoreNew}
    /\ sut = sut0
    /\ heap = <<>> /\ refs = EmptyMap /\ held = {} /\ last = NoCall /\ puts = EmptyMap
    /\ workers \in {<<a, b>> : a \in Calls, b \in Calls}
    /\ crash = FALSE

\* a write of data at offset 0 of a file that holds content
WriteAt0(content, data) ==
    IF Len(data) >= Len(content) THEN data
    ELSE data \o SubSeq(content, Len(data) + 1, Len(content))

Step(i, at, result) ==
    /\ workers' = [workers EXCEPT ![i].at = at, ![i].result = result]
    /\ UNCHANGED <<program, tlvBench, sut0, crash, heap, refs, held, last, puts>>

At(i, kind, op, at) ==
    /\ ~crash
    /\ sut.kind = kind
    /\ workers[i].op = op
    /\ workers[i].at = at

\* os.OpenFile(location, O_WRONLY|O_CREATE|O_TRUNC): the file is empty
FsPutOpen(i) ==
    /\ At(i, "filesystem", "put", "start")
    /\ sut' = FsStorePut(sut, workers[i].key, <<>>)
    /\ Step(i, "opened", NoResult)

\* f.Write(data), at the offset of this open file, which is 0
FsPutWrite(i) ==
    /\ At(i, "filesystem", "put", "opened")
    /\ sut' = FsStorePut(sut, workers[i].key,
                         WriteAt0(FsStoreGet(sut, workers[i].key).data, workers[i].data))
    /\ Step(i, "written", NoResult)

\* f.Close() and the return of Put
FsPutClose(i) ==
    /\ At(i, "filesystem", "put", "written")
    /\ UNCHANGED sut
    /\ Step(i, "done", NoResult)

\* os.Open(location) in ReadFile: Get returns its error
FsGetOpen(i) ==
    /\ At(i, "filesystem", "get", "start")
    /\ UNCHANGED sut
    /\ IF FsStoreGet(sut, workers[i].key).err # ""
       THEN Step(i, "done", FsStoreGet(sut, workers[i].key))
       ELSE Step(i, "opened", NoResult)

\* the read of ReadFile and the return of Get
FsGetRead(i) ==
    /\ At(i, "filesystem", "get", "opened")
    /\ UNCHANGED sut
    /\ Step(i, "done", FsStoreGet(sut, workers[i].key))

\* make and copy in MemStore.Put
MemPutCopy(i) ==
    /\ At(i, "memory", "put", "start")
    /\ UNCHANGED sut
    /\ Step(i, "copied", NoResult)

\* (*s)[key] = copyData
MemPutAssign(i) ==
    /\ At(i, "memory", "put", "copied")
    /\ sut' = MemStorePut(sut, workers[i].key, workers[i].data)
    /\ Step(i, "done", NoResult)

\* data, ok := (*s)[key], the copy and the return of Get
MemGetRead(i) ==
    /\ At(i, "memory", "get", "start")
    /\ UNCHANGED sut
    /\ Step(i, "done", MemStoreGet(sut, workers[i].key))

\* worker i is about to read or write the map
AtMap(i) ==
    \/ workers[i].op = "put" /\ workers[i].at = "copied"
    \/ workers[i].op = "get" /\ workers[i].at = "start"

\* two goroutines in the map at once, one of them writing: the runtime may
\* throw "concurrent map read and map write" or "concurrent map writes"
MapRace ==
    /\ ~crash
    /\ sut.kind = "memory"
    /\ \E i, j \in DOMAIN workers :
           i # j /\ AtMap(i) /\ AtMap(j) /\ workers[i].op = "put"
    /\ crash' = TRUE
    /\ UNCHANGED <<program, tlvBench, storeBench, sut0, workers>>

NextRace ==
    \/ \E i \in DOMAIN workers : FsPutOpen(i)
    \/ \E i \in DOMAIN workers : FsPutWrite(i)
    \/ \E i \in DOMAIN workers : FsPutClose(i)
    \/ \E i \in DOMAIN workers : FsGetOpen(i)
    \/ \E i \in DOMAIN workers : FsGetRead(i)
    \/ \E i \in DOMAIN workers : MemPutCopy(i)
    \/ \E i \in DOMAIN workers : MemPutAssign(i)
    \/ \E i \in DOMAIN workers : MemGetRead(i)
    \/ MapRace

SpecRace == InitRace /\ [][NextRace]_vars

(***************************************************************************)
(* TLVFromBytes called directly on a buffer, or on a prefix of it.         *)
(***************************************************************************)
\* longest buffer made of TlvBytes
MaxLen == 4

\* header bytes of every type, with a 1-byte and a 2-byte identifier, with
\* and without a length field, and small identifiers and lengths
TlvBytes == {0, 1, 2, 40, 65, 136, 193, 207}

RECURSIVE Buffers(_)
\* the buffers of n bytes of TlvBytes
Buffers(n) == IF n = 0 THEN {<<>>}
              ELSE {<<b>> \o t : b \in TlvBytes, t \in Buffers(n - 1)}

\* longer entries: 2-byte and 3-byte length fields, the identifier 65535, a
\* value of 8 bytes, three levels of nesting, each also with a byte after it
LongEntries ==
    {<<208, 1, 0, 2, 9, 9>>,
     <<216, 1, 0, 0, 1, 9>>,
     <<32, 255, 255>>,
     <<200, 0, 8, 1, 2, 3, 4, 5, 6, 7, 8>>,
     <<8, 0, 9, 136, 1, 3, 65, 0, 7, 193, 2, 5>>,
     <<8, 0, 7, 136, 1, 3, 65, 0, 7, 193, 2>>}

TlvInputs ==
    UNION {Buffers(n) : n \in 0..MaxLen}
    \cup LongEntries \cup {e \o <<0>> : e \in LongEntries}

InitTlv ==
    /\ MainIdle /\ StoreBenchIdle /\ RaceBenchIdle
    /\ whole \in TlvInputs
    /\ buf = whole
    /\ parsed = None

\* the caller cuts the buffer short before the call
Truncate(n) ==
    /\ parsed = None
    /\ buf = whole
    /\ n < Len(buf)
    /\ buf' = SubSeq(buf, 1, n)
    /\ UNCHANGED <<program, storeBench, raceBench, whole, parsed>>

\* tlv, rest, err := TLVFromBytes(buf)
Decode ==
    /\ parsed = None
    /\ parsed' = Some(TLVFromBytes(buf))
    /\ UNCHANGED <<program, storeBench, raceBench, whole, buf>>

NextTlv ==
    \/ \E n \in 0..(Len(buf) - 1) : Truncate(n)
    \/ Decode

SpecTlv == InitTlv /\ [][NextTlv]_vars

(***************************************************************************)
(* Properties.                                                             *)
(***************************************************************************)
AllRequests == Requests \cup SessionRequests

ObjectPaths == {Some(<<"0">>), Some(<<"1">>), Some(<<"3">>)}

\* a PUT on an object path with content-format 99 whose body decodes to a
\* root ObjectInstance
IsObjectPut(r) ==
    /\ r.path \in ObjectPaths
    /\ r.code = "PUT"
    /\ r.format = 99
    /\ r.body # None
    /\ TLVFromBytes(r.body[1]).err = ""
    /\ TLVFromBytes(r.body[1]).tlv.Type = ObjectInstance

ObjectPuts == {r \in AllRequests : IsObjectPut(r)}

\* what a PUT is to write: for each direct child of type Resource of the
\* root, /<objectID>/<root identifier>/<child identifier> and the value
SpecWritesOf ==
    [r \in ObjectPuts |->
        LET root == TLVFromBytes(r.body[1]).tlv
            kids == SelectSeq(root.Children, LAMBDA c : c.Type = Resource)
        IN  [i \in 1..Len(kids) |->
                [key |-> <<"/">> \o r.path[1] \o <<"/">> \o Itoa(root.Identifier)
                         \o <<"/">> \o Itoa(kids[i].Identifier),
                 data |-> kids[i].Value]]]

SpecWrites(r) == IF r \in ObjectPuts THEN SpecWritesOf[r] ELSE <<>>

SpecKeys(r) == {SpecWrites(r)[i].key : i \in 1..Len(SpecWrites(r))}

RECURSIVE LastWrite(_, _)
\* the value the last write to key among the requests reqs leaves, if any
LastWrite(reqs, key) ==
    IF reqs = <<>> THEN None
    ELSE LET w == SpecWrites(reqs[Len(reqs)])
             hits == {i \in 1..Len(w) : w[i].key = key}
         IN  IF hits # {} THEN Some(w[CHOOSE i \in hits : \A j \in hits : j <= i].data)
             ELSE LastWrite(SubSeq(reqs, 1, Len(reqs) - 1), key)

\* the name a key has in the map of store s
NameIn(s, key) == IF s.kind = "memory" THEN key ELSE escapeKey(key)

\* what a Get of key returns after the writes of reqs on the store s0
GetAfter(s0, reqs, key) ==
    IF LastWrite(reqs, key) # None THEN [err |-> "", data |-> LastWrite(reqs, key)[1]]
    ELSE StoreGet(s0, key)

WrittenKeys(reqs) == UNION {SpecKeys(reqs[i]) : i \in 1..Len(reqs)}

CredentialKeys == {<<"/", "0", "/", "0", "/", "0">>, <<"/", "0", "/", "0", "/", "3">>,
                   <<"/", "0", "/", "0", "/", "5">>}

InReload == pc \in {"bs_reload0", "bs_reload3", "bs_reload5"}

Thm_C2 ==
    hist.taken = "timeout" =>
        /\ bsErr = ErrTimeout
        /\ ErrTimeout \notin {Nil, ErrCancelled}
        /\ ~finish.bsDone
        /\ ~hist.reloadRan
        /\ pc = "exit"
        /\ device = device0

\* the timer expired although PUTs had been accepted: no POST /bs came
Wit_C2 == hist.taken = "timeout" /\ bsErr = ErrTimeout /\ hist.nChanged > 0

\* C3 (as amended): when the cancellation is the only event ready as the
\* wait of Bootstrap decides, Bootstrap returns the Cancelled error, which is
\* neither success nor Timeout, and does not run the reload; and whenever
\* Bootstrap returns Cancelled the LWM2M fields of the device are as they
\* were before the call.
Thm_C3 ==
    /\ hist.ready = {"ctx"} =>
           bsErr = ErrCancelled /\ ~hist.reloadRan /\ pc = "exit"
    /\ ErrCancelled \notin {Nil, ErrTimeout}
    /\ bsErr = ErrCancelled => \A f \in Lwm2mFields : device[f] = device0[f]

\* cancelled while waiting, after writes had reached the store
Wit_C3 ==
    /\ bsErr = ErrCancelled
    /\ hist.cancelPc = "bs_blocked"
    /\ hist.nChanged > 0
    /\ store # hist.store0

\* C3 as stated: a cancellation that fires while Bootstrap runs makes it
\* return Cancelled whichever way the wait decides
Orig_C3 ==
    (/\ hist.cancelPc \in {"bs_post", "bs_blocked", "bs_reload0", "bs_reload3",
                           "bs_reload5"}
     /\ hist.taken # "none"
     /\ bsErr # "running") =>
        /\ bsErr = ErrCancelled
        /\ \A f \in Lwm2mFields : device[f] = device0[f]

\* C4: however many POST /bs arrive and however their handlers interleave,
\* every run of the finish handler leaves the bootstrap-complete event
\* produced exactly once and faults in none, and a run after the first
\* changes nothing of the session, the device or the store.
Thm_C4 ==
    [][hist'.nFinish > hist.nFinish =>
           /\ finish'.bsDone
           /\ ~finish'.panicked
           /\ hist'.nClose = 1
           /\ hist.nFinish >= 1 =>
                  <<finish, pc, bsErr, co, timer, device, store>>'
                      = <<finish, pc, bsErr, co, timer, device, store>>]_vars

\* three POST /bs were handled
Wit_C4 == hist.nFinish = 3 /\ hist.nClose = 1 /\ ~finish.panicked

\* C5: a session that was dialed is closed once the call has returned,
\* whatever the exit path, and a call that failed its readiness gate or its
\* dial leaves no session behind.
Thm_C5 ==
    /\ bsErr # "running" => co.bs # "open"
    /\ regErr # "running" => co.reg # "open"
    /\ (pc = "call_register" /\ bsErr # "running") => co.bs = "closed"
    /\ \A e \in DOMAIN trace :
           trace[e].op # "dial" /\ trace[e].sess = "bs" => co.bs # "none"
    /\ (\A e \in DOMAIN trace : trace[e].sess # "bs") => co.bs = "none"
    /\ (\A e \in DOMAIN trace : trace[e].sess # "reg") => co.reg = "none"
    /\ bsErr = "Error dialing" => co.bs = "none"
    /\ regErr = "Error dialing" => co.reg = "none"

\* both calls returned without error, each with its session closed
Wit_C5 == bsErr = Nil /\ regErr = Nil /\ co = [bs |-> "closed", reg |-> "closed"]

\* C6: a PUT on /<objectID> with content-format 99 and a body that decodes
\* to a root ObjectInstance is answered 2.04 Changed; and when the handler
\* ran with no other handler in flight, the store after it holds under
\* /<objectID>/<root identifier>/<child identifier> the value of each direct
\* Resource child and is otherwise what it was when the request arrived, so
\* that children of the other types wrote nothing.
Thm_C6 ==
    /\ lastDone.req \in ObjectPuts => lastDone.code = Changed
    /\ (hist.orderly /\ handlers = <<>> /\ lastDone.req \in ObjectPuts) =>
           /\ \A key \in SpecKeys(lastDone.req) :
                  StoreGet(store, key) =
                      [err |-> "", data |-> LastWrite(<<lastDone.req>>, key)[1]]
           /\ \A name \in (DOMAIN store.m \cup DOMAIN hist.prior.m)
                          \ {NameIn(store, key) : key \in SpecKeys(lastDone.req)} :
                  /\ name \in DOMAIN store.m
                  /\ name \in DOMAIN hist.prior.m
                  /\ store.m[name] = hist.prior.m[name]

\* the body with children of all four types was handled on /0
Wit_C6 ==
    /\ hist.orderly
    /\ handlers = <<>>
    /\ lastDone = [req |-> Req(Some(<<"0">>), "PUT", 99, Some(BodyMixed)), code |-> Changed]
    /\ Cardinality(DOMAIN store.m) = Cardinality(DOMAIN hist.prior.m) + 2

\* an optional sign and then one or more decimal digits
IsIntegerText(p) ==
    /\ p # <<>>
    /\ LET body == IF p[1] \in {"+", "-"} THEN SubSeq(p, 2, Len(p)) ELSE p
       IN  body # <<>> /\ \A i \in DOMAIN body : body[i] \in {Digits[d] : d \in 1..10}

\* the response code the object handler is to give a request
SpecObjectCode(r) ==
    IF r.path = None \/ ~IsIntegerText(r.path[1]) THEN "4.00 Bad Request"
    ELSE IF r.code = "DELETE" THEN "2.02 Deleted"
    ELSE IF r.code # "PUT" THEN "4.05 Method Not Allowed"
    ELSE IF r.format # 99 THEN "4.15 Unsupported Content-Format"
    ELSE IF r.body = None THEN "4.00 Bad Request"
    ELSE IF TLVFromBytes(r.body[1]).err # "" THEN "4.00 Bad Request"
    ELSE IF TLVFromBytes(r.body[1]).tlv.Type # ObjectInstance THEN "4.00 Bad Request"
    ELSE "2.04 Changed"

\* the response code a request on the bootstrap session is to get
SpecCode(r) ==
    IF r.path \in ObjectPaths THEN SpecObjectCode(r)
    ELSE IF r.path = Some(<<"b", "s">>) THEN NoResponse
    ELSE "4.03 Forbidden"

SpecCodeOf == [r \in AllRequests |-> SpecCode(r)]

\* the object handler, handed r under each path of DirectPaths, answers as
\* the table has it
DirectCallsAgree ==
    [r \in AllRequests |->
        \A p \in DirectPaths :
            bsHandleObjectID([r EXCEPT !.path = p]).code
                = SpecObjectCode([r EXCEPT !.path = p])]

\* C7: every request the session has answered got the code of the table:
\* on an object path 2.02 for DELETE, 4.15 for a PUT whose content-format is
\* absent or not 99, 4.00 for a PUT without a body or with a body that does
\* not decode to a root ObjectInstance, 4.05 for any other method; on a path
\* other than /0, /1, /3 and /bs 4.03; and the object handler, handed the
\* same request under a path that is no integer, answers 4.00.
Thm_C7 ==
    /\ lastDone # NoDone => lastDone.code = SpecCodeOf[lastDone.req]
    /\ lastDone # NoDone => DirectCallsAgree[lastDone.req]

\* a PUT with a text/plain body was answered 4.15
Wit_C7 ==
    /\ lastDone.code = "4.15 Unsupported Content-Format"
    /\ lastDone.req = Req(Some(<<"0">>), "PUT", TextPlain, Some(BodyMixed))

BootstrapReady(d) == \A f \in BootstrapFields : d[f] # None

RegisterReady(d) == \A f \in Lwm2mFields : d[f] # None

Missing(d, fields) == {f \in fields : d[f] = None}

\* C8: the gate of Bootstrap passes a device iff its bootstrap id, URL and
\* certificate are all present and the gate of Register iff its endpoint
\* name, LWM2M URL and LWM2M certificate are; a call on a device that is not
\* ready returns an error that names a missing field, and has dialed
\* nothing, sent nothing and changed neither the device nor the store.
Thm_C8 ==
    /\ (readyForBootstrap(device) = Nil) <=> BootstrapReady(device)
    /\ (readyForRegister(device) = Nil) <=> RegisterReady(device)
    /\ (bsErr # "running" /\ ~BootstrapReady(device0)) =>
           /\ bsErr \in {"Unable to bootstrap: " \o f \o " missing" :
                             f \in Missing(device0, BootstrapFields)}
           /\ trace = <<>>
           /\ co = [bs |-> "none", reg |-> "none"]
           /\ device = device0
           /\ store = hist.store0
    /\ (regErr # "running" /\ ~RegisterReady(device)) =>
           /\ regErr \in {"Unable to register: " \o f \o " missing" :
                              f \in Missing(device, Lwm2mFields)}
           /\ \A e \in DOMAIN trace : trace[e].sess # "reg"
           /\ co.reg = "none"
           /\ device = device0
           /\ store = hist.store0
    /\ (bsErr # "running" /\ BootstrapReady(device0)) => trace # <<>>
    /\ (regErr # "running" /\ RegisterReady(device)) =>
           \E e \in DOMAIN trace : trace[e].sess = "reg"

\* Register was called on a device that has no LWM2M certificate
Wit_C8 ==
    /\ regErr = "Unable to register: Lwm2mCert missing"
    /\ device.Lwm2mCert = None
    /\ device.EndpointName # None
    /\ trace = <<>>

RECURSIVE SpecLocation(_)
\* /part1/part2/... over the Location-Path options of a response
SpecLocation(options) ==
    IF options = <<>> THEN <<>>
    ELSE IF Head(options).ID = 8
    THEN <<"/">> \o Head(options).Value \o SpecLocation(Tail(options))
    ELSE SpecLocation(Tail(options))

Sent(op, sess) == {e \in DOMAIN trace : trace[e].op = op /\ trace[e].sess = sess}

\* C9: once Register has returned after a POST rd answered 2.01 Created,
\* exactly one DELETE was sent on its session, after the POST, for the path
\* /part1/part2/... of the response's Location-Path options; no DELETE is
\* sent when the POST failed or got another code; and a DELETE answered with
\* a code other than 2.02 makes Register return the wrong-return-code error.
Thm_C9 ==
    /\ (hist.created # None /\ regErr # "running") =>
           /\ Cardinality(Sent("DELETE", "reg")) = 1
           /\ \A e \in Sent("DELETE", "reg") :
                  /\ trace[e].path = SpecLocation(hist.created[1])
                  /\ \E b \in Sent("POST", "reg") : b < e
    /\ hist.created = None => Sent("DELETE", "reg") = {}
    /\ (regErr # "running" /\ Sent("POST", "reg") # {} /\ hist.created = None) =>
           regErr # Nil
    /\ hist.deleteCode \notin {NoResponse, "2.02 Deleted"} =>
           regErr = "Wrong return code, expected 2.02 Deleted got " \o hist.deleteCode
    /\ regErr = Nil => hist.deleteCode = "2.02 Deleted"

\* a 2.01 with two Location-Path options around another option
Wit_C9 ==
    /\ regErr = Nil
    /\ hist.created # None
    /\ Len(hist.created[1]) = 3
    /\ trace[Len(trace)].op = "DELETE"
    /\ trace[Len(trace)].path = <<"/", "r", "d", "/", "x", "1">>

\* C10 as stated: a 2.01 Created without a Location-Path option makes
\* Register return an error
Orig_C10 ==
    (/\ regErr # "running"
     /\ hist.created # None
     /\ \A i \in DOMAIN hist.created[1] : hist.created[1][i].ID # 8) =>
        regErr # Nil

\* the text k=v of the pairs of a parsed query, in the order of the URL
PairTexts(query) == [j \in DOMAIN query |-> query[j][1] \o <<"=">> \o query[j][2]]

Occurrences(seq, x) == Cardinality({i \in DOMAIN seq : seq[i] = x})

\* C11: every POST rd that Register sends carries Uri-Query options only:
\* first ep=<endpoint name>, then one option k=v for every (key, value) pair
\* of the query of the device's LWM2M URL, a pair that occurs several times
\* as often as it occurs, and nothing else.
Thm_C11 ==
    \A e \in Sent("POST", "reg") :
        LET options == trace[e].options
            texts == [i \in DOMAIN options |-> options[i].Value]
            pairs == PairTexts(device.Lwm2mURL[1].Query)
        IN  /\ \A i \in DOMAIN options : options[i].ID = 15
            /\ Len(options) = Len(pairs) + 1
            /\ texts[1] = <<"e", "p", "=">> \o device.EndpointName[1]
            /\ \A x \in {texts[i] : i \in 2..Len(texts)}
                        \cup {pairs[j] : j \in DOMAIN pairs} :
                   Occurrences(Tail(texts), x) = Occurrences(pairs, x)

\* a POST rd for a URL whose query has the key k twice
Wit_C11 ==
    /\ Sent("POST", "reg") # {}
    /\ Len(device.Lwm2mURL[1].Query) = 3
    /\ \E e \in Sent("POST", "reg") :
           /\ Len(trace[e].options) = 4
           /\ trace[e].options[2].Value = <<"k", "=", "v">>
           /\ trace[e].options[3].Value = <<"k", "=", "w">>
           /\ trace[e].options[4].Value = <<"a", "i", "d", "=", "a">>

\* the bytes under a key of store s, if any
Held(s, key) == IF StoreGet(s, key).err = "" THEN Some(StoreGet(s, key).data) ELSE None

\* a coaps URL with exactly one aid
IsLwm2mURL(text) ==
    /\ UrlParse(text).err = ""
    /\ UrlParse(text).url.Scheme = <<"c", "o", "a", "p", "s">>
    /\ Len(QueryValues(UrlParse(text).url, <<"a", "i", "d">>)) = 1

\* /0/0/0, /0/0/3 and /0/0/5 hold a URL, a certificate and a key that parse
CredentialsIn(s) ==
    /\ Held(s, <<"/", "0", "/", "0", "/", "0">>) # None
    /\ IsLwm2mURL(StringOf(Held(s, <<"/", "0", "/", "0", "/", "0">>)[1]))
    /\ Held(s, <<"/", "0", "/", "0", "/", "3">>) # None
    /\ ParseCertificate(Held(s, <<"/", "0", "/", "0", "/", "3">>)[1]).err = ""
    /\ Held(s, <<"/", "0", "/", "0", "/", "5">>) # None
    /\ ParsePKCS8PrivateKey(Held(s, <<"/", "0", "/", "0", "/", "5">>)[1]).err = ""

\* Bootstrap has returned after its wait took the finish event, and no
\* handler wrote to the store from then on
ReloadDone ==
    /\ hist.taken = "bsDone"
    /\ hist.orderly
    /\ bsErr # "running"

\* C12: when the wait of Bootstrap has taken the finish event and the store
\* is at rest, Bootstrap succeeds iff /0/0/0 holds a coaps URL with exactly
\* one aid, /0/0/3 a certificate that parses and /0/0/5 a PKCS#8 key that
\* parses; on success the endpoint name is the CN of that certificate, the
\* LWM2M URL the stored URL and the certificate the stored pair, whatever
\* the aid of the stored URL, and the account id and the bootstrap fields
\* are unchanged; otherwise Bootstrap returns an error and the device is as
\* before.
Thm_C12 ==
    ReloadDone =>
        IF CredentialsIn(store)
        THEN /\ bsErr = Nil
             /\ device.EndpointName =
                    Some(ParseCertificate(
                             Held(store, <<"/", "0", "/", "0", "/", "3">>)[1]).CommonName)
             /\ device.Lwm2mURL =
                    Some(UrlParse(StringOf(
                             Held(store, <<"/", "0", "/", "0", "/", "0">>)[1])).url)
             /\ device.Lwm2mCert =
                    Some([Certificate |->
                              <<Held(store, <<"/", "0", "/", "0", "/", "3">>)[1]>>,
                          PrivateKey |->
                              Held(store, <<"/", "0", "/", "0", "/", "5">>)[1]])
             /\ device.AccountID = device0.AccountID
             /\ \A f \in BootstrapFields : device[f] = device0[f]
        ELSE /\ bsErr \notin {Nil, ErrTimeout, ErrCancelled}
             /\ device = device0

\* Bootstrap succeeded with a stored URL whose aid is not the device's
Wit_C12 ==
    /\ ReloadDone
    /\ bsErr = Nil
    /\ QueryValues(device.Lwm2mURL[1], <<"a", "i", "d">>)[1] # device.AccountID

\* the bytes the map of store s holds under key, if any
Stored(s, key) ==
    IF NameIn(s, key) \in DOMAIN s.m THEN Some(s.m[NameIn(s, key)]) ELSE None

\* the most recent Put of key, if any
LastPut(key) == IF key \in DOMAIN puts THEN Some(puts[key]) ELSE None

\* C13: on either backend, after any sequence of Put and Get on canonical
\* keys: a Get returns the bytes of the most recent Put of its key without
\* an error, and the backend's not-found error with no bytes when the key
\* was never put; a Get leaves the store as it was; a Put returns no error,
\* leaves its bytes under its key whatever was there, and leaves every
\* other key as it was.
Thm_C13 ==
    /\ \A k \in StoreKeys : Stored(sut, k) = LastPut(k)
    /\ last.op = "get" =>
          /\ sut = last.before
          /\ IF LastPut(last.key) # None
             THEN last.err = "" /\ last.data = LastPut(last.key)[1]
             ELSE /\ last.err = IF sut.kind = "memory" THEN "Not found"
                                ELSE "no such file or directory"
                  /\ last.data = <<>>
    /\ last.op = "put" =>
          /\ last.err = ""
          /\ Stored(sut, last.key) = Some(last.data)
          /\ \A k \in StoreKeys \ {last.key} : Stored(sut, k) = Stored(last.before, k)

\* a Get of the filesystem store returns bytes that replaced a file of an
\* earlier run
Wit_C13 ==
    /\ last.op = "get"
    /\ sut.kind = "filesystem"
    /\ last.key = <<"/", "0", "/", "0", "/", "0">>
    /\ last.data = <<1>>
    /\ <<"/", "1", "/", "0", "/", "0">> \notin DOMAIN puts

\* C14: in the memory backend the slice the map holds under a key is no
\* slice the caller holds and its bytes are those of the most recent Put as
\* they were at that call, whatever the caller has overwritten since in the
\* slice it passed or in a slice a Get returned; a Get returns those bytes in
\* a slice that is new to the caller.
Thm_C14 ==
    sut.kind = "memory" =>
        /\ DOMAIN refs = DOMAIN puts
        /\ \A k \in DOMAIN refs : heap[refs[k]] = puts[k] /\ refs[k] \notin held
        /\ (last.op = "get" /\ last.err = "") =>
               /\ last.data = puts[last.key]
               /\ last.out \in held \ last.had
               /\ last.out # refs[last.key]

\* after a Put and a Get the caller overwrote the slice it had passed and
\* the slice it had got, and a second Get returned the bytes put
Wit_C14 ==
    /\ sut.kind = "memory"
    /\ last.op = "get"
    /\ last.n = 3
    /\ Cardinality(last.had) = 2
    /\ \A a \in last.had : heap[a] = <<7>>
    /\ last.data = <<1>>
    /\ heap[last.out] = <<1>>

\* the calls of SpecRace that put
Putters == {i \in DOMAIN workers : workers[i].op = "put"}

\* what a Get may return when every Put is atomic
AtomicResults ==
    {[err |-> "", data |-> workers[i].data] : i \in Putters}
    \cup {StoreGet(sut0, RaceKey)}

\* C15, as the spec states it: whatever the backend, the process runs on, a
\* Get that ran while Puts of its key ran has returned the bytes the key had
\* before (the not-found error when it had none) or the bytes of one of the
\* Puts, whole, and when the calls are over the key holds the bytes of one
\* of the Puts.
Orig_C15 ==
    /\ ~crash
    /\ \A i \in DOMAIN workers :
           (workers[i].op = "get" /\ workers[i].at = "done") =>
               workers[i].result \in AtomicResults
    /\ (Putters # {} /\ \A i \in DOMAIN workers : workers[i].at = "done") =>
           StoreGet(sut, RaceKey) \in AtomicResults \ {StoreGet(sut0, RaceKey)}

\* The layout of an entry, read off the bytes b it starts with.
TypeBits(b) == (b[1] \div 64) % 4

IdBytes(b) == IF (b[1] \div 32) % 2 = 1 THEN 2 ELSE 1

LenBytes(b) == (b[1] \div 8) % 4

\* b holds the header, the identifier and the length field
HasLengthField(b) == Len(b) >= 1 /\ Len(b) >= 1 + IdBytes(b) + LenBytes(b)

IdOf(b) == IF IdBytes(b) = 1 THEN b[2] ELSE 256 * b[2] + b[3]

LengthOf(b) ==
    LET at == 1 + IdBytes(b)
    IN  CASE LenBytes(b) = 0 -> b[1] % 8
          [] LenBytes(b) = 1 -> b[at + 1]
          [] LenBytes(b) = 2 -> 256 * b[at + 1] + b[at + 2]
          [] LenBytes(b) = 3 -> 65536 * b[at + 1] + 256 * b[at + 2] + b[at + 3]

\* bytes of the entry before its value, and of the entry
HeadSize(b) == 1 + IdBytes(b) + LenBytes(b)

EntrySize(b) == HeadSize(b) + LengthOf(b)

\* b holds everything its header, identifier and length field demand
HeadComplete(b) == HasLengthField(b) /\ Len(b) >= EntrySize(b)

ValueOf(b) == SubSeq(b, HeadSize(b) + 1, EntrySize(b))

TailOf(b) == SubSeq(b, EntrySize(b) + 1, Len(b))

IsContainer(b) == TypeBits(b) \in {0, 2}

RECURSIVE IsEntries(_)
\* b is a sequence of complete entries
IsEntries(b) ==
    \/ b = <<>>
    \/ /\ HeadComplete(b)
       /\ IsContainer(b) => IsEntries(ValueOf(b))
       /\ IsEntries(TailOf(b))

\* b starts with a complete entry
StartsWithEntry(b) == HeadComplete(b) /\ (IsContainer(b) => IsEntries(ValueOf(b)))

TypeNames == <<ObjectInstance, ResourceInstance, MultiResource, Resource>>

\* C16: TLVFromBytes succeeds exactly on the buffers that start with a
\* complete entry, and then the node has the type that bits 7-6 of the
\* header select, the identifier of the 1 or 2 bytes that bit 5 selects, a
\* value of as many bytes as bits 2-0 say, or as the 1 to 3 length bytes
\* say when bits 4-3 are not 0, and the remainder is the rest of the
\* buffer: the bytes consumed followed by the remainder are the buffer.
Thm_C16 ==
    parsed # None =>
        /\ parsed[1].err = "" <=> StartsWithEntry(buf)
        /\ parsed[1].err = "" =>
              /\ parsed[1].tlv.Type = TypeNames[TypeBits(buf) + 1]
              /\ parsed[1].tlv.Identifier = IdOf(buf)
              /\ Len(parsed[1].tlv.Value) = LengthOf(buf)
              /\ parsed[1].tlv.Value = ValueOf(buf)
              /\ parsed[1].rest = TailOf(buf)
              /\ SubSeq(buf, 1, EntrySize(buf)) \o parsed[1].rest = buf

\* an entry with a 3-byte length field and a byte after it
Wit_C16 ==
    /\ buf = <<216, 1, 0, 0, 1, 9, 0>>
    /\ parsed # None
    /\ parsed[1].err = ""
    /\ parsed[1].tlv.Value = <<9>>
    /\ parsed[1].rest = <<0>>

\* the errors of TLVFromBytes that say the data is short
IsShortError(err) ==
    \/ err = "Data short to be a valid TLV"
    \/ \E needed \in 1..Len(whole) : \E got \in 0..(needed - 1) :
           err = "Data short to be a valid TLV. Needed " \o ToString(needed)
                 \o ", got " \o ToString(got)

\* C17: when the buffer was one complete entry and TLVFromBytes is given a
\* prefix of it that lacks at least one byte, the empty prefix included, it
\* returns an error that says the data is short, and no node.
Thm_C17 ==
    (parsed # None /\ buf # whole /\ StartsWithEntry(whole) /\ TailOf(whole) = <<>>) =>
        /\ IsShortError(parsed[1].err)
        /\ parsed[1].tlv = [nil |-> TRUE]
        /\ parsed[1].rest = <<>>

\* an entry of three levels cut inside a grandchild
Wit_C17 ==
    /\ whole = <<8, 0, 9, 136, 1, 3, 65, 0, 7, 193, 2, 5>>
    /\ Len(buf) = 8
    /\ parsed # None
    /\ IsShortError(parsed[1].err)

\* C18, as the spec states it: when the buffer holds every byte that the
\* header, identifier, length field and value of its first entry demand and
\* TLVFromBytes fails all the same, on the children of the entry, the error
\* is of another kind than the one for short input.
Orig_C18 ==
    (parsed # None /\ HeadComplete(buf) /\ parsed[1].err # "") =>
        ~IsShortError(parsed[1].err)

RECURSIVE Segments(_)
\* the entries that b is made of, each as its bytes
Segments(b) ==
    IF b = <<>> THEN <<>>
    ELSE <<SubSeq(b, 1, EntrySize(b))>> \o Segments(TailOf(b))

RECURSIVE NodeOf(_)
\* the node that the entry b stands for
NodeOf(b) ==
    [Type |-> TypeNames[TypeBits(b) + 1],
     Identifier |-> IdOf(b),
     Value |-> ValueOf(b),
     Children |-> IF IsContainer(b)
                  THEN [i \in DOMAIN Segments(ValueOf(b)) |->
                            NodeOf(Segments(ValueOf(b))[i])]
                  ELSE <<>>]

RECURSIVE Sizes(_)
Sizes(segs) == IF segs = <<>> THEN 0 ELSE Len(Head(segs)) + Sizes(Tail(segs))

RECURSIVE NodeOk(_, _)
\* node is what the entry b stands for, at every depth
NodeOk(node, b) ==
    /\ node.Identifier \in 0..65535
    /\ node.Type = TypeNames[TypeBits(b) + 1]
    /\ node.Identifier = IdOf(b)
    /\ node.Value = ValueOf(b)
    /\ IF node.Type \in {ObjectInstance, MultiResource}
       THEN /\ Len(node.Children) = Len(Segments(node.Value))
            /\ Sizes(Segments(node.Value)) = Len(node.Value)
            /\ \A i \in DOMAIN node.Children :
                   NodeOk(node.Children[i], Segments(node.Value)[i])
       ELSE node.Children = <<>>

\* C19: in the node of a successful TLVFromBytes, at every depth: a Resource
\* or ResourceInstance has no children; the children of an ObjectInstance
\* or MultiResource are the entries of its value, in the order of the
\* bytes, each inside the value, their sizes adding up to the length of the
\* value, which the node keeps; the identifier is in 0..65535.
Thm_C19 ==
    (parsed # None /\ parsed[1].err = "") =>
        NodeOk(parsed[1].tlv, SubSeq(buf, 1, EntrySize(buf)))

\* an ObjectInstance holding a MultiResource with one ResourceInstance, and
\* a Resource after it
Wit_C19 ==
    /\ buf = <<8, 0, 9, 136, 1, 3, 65, 0, 7, 193, 2, 5>>
    /\ parsed # None
    /\ parsed[1].err = ""
    /\ Len(parsed[1].tlv.Children) = 2
    /\ parsed[1].tlv.Children[1].Children[1].Value = <<7>>
    /\ parsed[1].tlv.Children[2].Type = Resource

\* the handlers in flight that are bsHandleObjectID
ObjectHandlers == {i \in DOMAIN handlers : Route(handlers[i].req.path) = "bsHandleObjectID"}

\* C20, as the spec states it: while loadLW2MCredentialsFromStore reads the
\* store or assigns the device's fields no handler of /0, /1 or /3 is in
\* flight, and from the start of the reload on no step changes the store.
Orig_C20 ==
    /\ [](InReload => ObjectHandlers = {})
    /\ [][(InReload \/ hist.reloadRan) => store' = store]_vars

\* what Bootstrap returns when POST bs fails or is answered with another
\* code than 2.04
PostErrors ==
    {"Error sending request"}
    \cup {"Wrong return code: " \o code : code \in {"4.00 Bad Request", "2.01 Created"}}

\* C21: the reload runs, and the device changes, only after POST bs was sent
\* and answered 2.04 (which is when the timer is made) and the wait then
\* took the finish event; when POST bs fails or is answered with another
\* code Bootstrap returns that error at once, finish event or not, with no
\* timer made and no wait; and when the wait took the timeout or the
\* cancellation the reload never runs and the LWM2M fields of the device
\* stay as they were.
Thm_C21 ==
    /\ (InReload \/ hist.reloadRan \/ device # device0) =>
           /\ hist.taken = "bsDone"
           /\ finish.bsDone
           /\ timer # "unset"
           /\ Sent("POST", "bs") # {}
           /\ bsErr \notin PostErrors
    /\ bsErr \in PostErrors =>
           /\ pc = "exit"
           /\ hist.taken = "none"
           /\ timer = "unset"
           /\ ~hist.reloadRan
           /\ device = device0
    /\ hist.taken \in {"timeout", "ctx"} =>
           /\ ~hist.reloadRan
           /\ ~InReload
           /\ bsErr \in {ErrTimeout, ErrCancelled}
           /\ \A f \in Lwm2mFields : device[f] = device0[f]

\* POST bs was answered 4.00 after a POST /bs had produced the finish event
\* and a PUT had stored the credentials: Bootstrap returned the error
Wit_C21 ==
    /\ bsErr = "Wrong return code: 4.00 Bad Request"
    /\ finish.bsDone
    /\ CredentialsIn(store)
    /\ store # hist.store0

\* the codes a handler refuses a request with
Refusals == {BadRequest, Forbidden, MethodNotAllowed, UnsupportedMediaType}

\* C22: a handler that answers 4.00, 4.03, 4.05 or 4.15 leaves Bootstrap
\* where it was: its position, its result, the session, the timer, the
\* finish event and the device are unchanged by the step, so the wait goes
\* on and further requests are served; and in a session with refused
\* requests, once a PUT was accepted and POST /bs was taken by the wait with
\* the store at rest, the credentials are in the store and Bootstrap
\* returns without error.
Thm_C22 ==
    /\ [][(Len(handlers') < Len(handlers) /\ lastDone'.code \in Refusals) =>
              <<pc, bsErr, co, timer, finish, ctxDone, device>>'
                  = <<pc, bsErr, co, timer, finish, ctxDone, device>>]_vars
    /\ [](bsErr \notin {"running", Nil} =>
              bsErr \in PostErrors \cup {ErrTimeout, ErrCancelled, "Error dialing", "fatal"}
              \/ hist.reloadRan)
    /\ []((ReloadDone /\ hist.accepted # <<>>) =>
              bsErr = Nil /\ CredentialsIn(store))

\* three requests, each sent after the one before was answered: one was
\* refused, the PUT of the credentials was stored, POST /bs completed the
\* bootstrap
Wit_C22 ==
    /\ bsErr = Nil
    /\ hist.orderly
    /\ nreq = 3
    /\ hist.bsSent = 1
    /\ Len(hist.accepted) = 1
    /\ CredentialsIn(store)

\* C23: a DELETE on an object path is answered 2.02, and a request answered
\* with any code other than 2.04 has written nothing: the handler of such a
\* request makes no s.Put at all, the step in which it answers leaves the
\* store as it is, and when it ran with no other handler in flight the store
\* after its answer is the store the request found.
Thm_C23 ==
    /\ [](\A i \in DOMAIN handlers :
              /\ handlers[i].done > 0 => Plan(handlers[i].req).code = Changed
              /\ Plan(handlers[i].req).code # Changed =>
                     Plan(handlers[i].req).puts = <<>>)
    /\ []((lastDone # NoDone /\ lastDone.req.code = "DELETE"
              /\ Route(lastDone.req.path) = "bsHandleObjectID") =>
              lastDone.code = Deleted)
    /\ [][(Len(handlers') < Len(handlers) /\ lastDone'.code # Changed) =>
              store' = store]_vars
    /\ []((hist.orderly /\ handlers = <<>> /\ lastDone # NoDone
              /\ lastDone.code # Changed) => store = hist.prior)

\* a DELETE on /3 was answered 2.02 after a PUT had been stored, and the
\* store is as the DELETE found it
Wit_C23 ==
    /\ hist.orderly
    /\ handlers = <<>>
    /\ lastDone = [req |-> Req(Some(<<"3">>), "DELETE", NoFormat, None), code |-> Deleted]
    /\ store = hist.prior
    /\ store # hist.store0

\* what a caller can tell of two results of Get: both found with the same
\* bytes, or both not found
SameResult(a, b) ==
    \/ a.err = "" /\ b.err = "" /\ a.data = b.data
    \/ a.err = ErrNoFile /\ b.err = ErrNotFound /\ a.data = <<>> /\ b.data = <<>>

\* C24: after the same Puts on canonical paths, made on an FsStore over an
\* empty directory and on an empty MemStore, every Get returns the same in
\* both, the same bytes or not-found in both; and escapeKey gives distinct
\* canonical paths distinct file names.
Thm_C24 ==
    /\ last.op = "get" =>
           SameResult([err |-> last.err, data |-> last.data], last.twin)
    /\ \A key \in CanonicalPaths :
           SameResult(FsStoreGet(sut, key), MemStoreGet(sut0, key))
    /\ \A k1 \in CanonicalPaths, k2 \in CanonicalPaths :
           k1 # k2 => escapeKey(k1) # escapeKey(k2)

\* a Get of /1/10/0 after Puts of different bytes on /1/10/0 and /11/0/0
Wit_C24 ==
    /\ last.op = "get"
    /\ last.key = ResourceKey(1, 10, 0)
    /\ last.twin = [err |-> "", data |-> <<1>>]
    /\ ResourceKey(11, 0, 0) \in DOMAIN sut0.m
    /\ sut0.m[ResourceKey(11, 0, 0)] = <<2, 3>>
    /\ last.n = 3

\* C25: a PUT answered 2.04 has every direct Resource child of its body
\* readable from the store with the value delivered, also when a Put of the
\* filesystem store failed while the handler ran.
Orig_C25 ==
    (hist.orderly /\ handlers = <<>> /\ lastDone # NoDone
         /\ lastDone.code = Changed /\ lastDone.req \in ObjectPuts) =>
        \A key \in SpecKeys(lastDone.req) :
            StoreGet(store, key) = [err |-> "", data |-> LastWrite(<<lastDone.req>>, key)[1]]

\* C26: the finish event is never lost.  Once POST /bs was handled the
\* event stays; a wait is never blocked while the event is there; a POST /bs
\* handled before POST bs was answered is taken by the wait as soon as it
\* begins, and one handled during the wait ends it, both going on to the
\* reload; so that with the event there and no cancellation, a wait that
\* ended took the event.
Thm_C26 ==
    /\ [](pc = "bs_blocked" => ~finish.bsDone)
    /\ [][finish.bsDone => finish'.bsDone]_vars
    /\ [][(pc = "bs_post" /\ finish.bsDone /\ ~ctxDone /\ timer' # "unset") =>
              (pc' = "bs_reload0" /\ hist'.taken = "bsDone")]_vars
    /\ [][(pc = "bs_blocked" /\ finish'.bsDone) =>
              (pc' = "bs_reload0" /\ hist'.taken = "bsDone")]_vars
    /\ []((finish.bsDone /\ ~ctxDone /\ hist.taken # "none") =>
              hist.taken = "bsDone")

\* POST /bs was handled after the dial and before POST bs was sent
Wit_C26 ==
    /\ pc = "bs_post"
    /\ finish.bsDone
    /\ ~ctxDone
    /\ Sent("POST", "bs") = {}
    /\ lastDone = [req |-> Req(Some(<<"b", "s">>), "POST", NoFormat, None),
                   code |-> NoResponse]

\* C27: the device changes in one step only, the last of the reload, which
\* assigns the endpoint name, the LWM2M URL and the LWM2M certificate
\* together; until then, and whenever Bootstrap returns an error, the
\* device is as it was before the call; and the account id and the
\* bootstrap id, URL and certificate are never changed, by Bootstrap or by
\* Register.
Thm_C27 ==
    /\ [][device' # device =>
              /\ pc = "bs_reload5"
              /\ bsErr' = Nil
              /\ \A f \in Lwm2mFields : device'[f] # None
              /\ device'.Lwm2mURL = Some(local.lwm2mURL)
              /\ device'.Lwm2mCert[1].Certificate = <<local.der>>]_vars
    /\ [](pc \in {"bs_post", "bs_blocked", "bs_reload0", "bs_reload3", "bs_reload5"} =>
              device = device0)
    /\ [](bsErr \notin {"running", Nil} => device = device0)
    /\ [](\A f \in {"AccountID"} \cup BootstrapFields : device[f] = device0[f])

\* the reload failed at its last Get, after the URL and the certificate had
\* been read, and the device is as before
Wit_C27 ==
    /\ hist.reloadRan
    /\ bsErr = "Invalid credentials returned from bootstrap: "
                   \o "Error retrieving Device Private Key: " \o ErrNotFound
    /\ device = device0
    /\ Held(store, ResourceKey(0, 0, 0)) # None
    /\ Held(store, ResourceKey(0, 0, 3)) # None

\* C28: once POST bs was answered 2.04 (the timer is made), Bootstrap
\* eventually returns, whatever requests the server sends afterwards.
Orig_C28 == (timer # "unset") ~> (bsErr # "running")

\* the same, but for the runs in which the process dies of a race on the
\* map of the MemStore
ReturnsUnlessFault == (timer # "unset") ~> (bsErr # "running" \/ hist.fault # "none")
====
